---- MODULE Spec2Model ----
(***************************************************************************)
(* rtt2pty_pylink.py: the RTT to PTY bridge.  main() is modelled as a      *)
(* sequential program whose control position is pc; every external call    *)
(* (probe SDK, OS) is one step whose outcome is chosen by the environment.  *)
(* Signal delivery is an asynchronous action that may fire between any two  *)
(* steps once the handlers are installed.                                   *)
(*                                                                         *)
(* Assumed: writes to standard output / standard error succeed; the        *)
(* process is not killed ungracefully (SIGKILL).                            *)
(***************************************************************************)
EXTENDS Integers, Sequences, FiniteSets, TLC

\* ------------------------------------------------------------------ bounds
\* bytes the target emits on the up-buffer during one run
MaxUpBytes == 3
\* bytes the operator types into the PTY slave during one run
MaxDownBytes == 2
\* largest chunk one read returns in the model (the code asks for ReadSize)
MaxChunkLen == 2
\* descriptors per direction the session may report
MaxBuffers == 2

\* -------------------------------------------------------- program constants
MinSpeed == 5
MaxSpeed == 50000
DefaultSpeed == 4000
DefaultMaxRetries == 3
ReadSize == 4096
max_consecutive_errors == 10
\* time is counted in units of 100 ms
max_rtt_wait == 50
RttPollSleep == 2
ExitOk == 0
ExitError == 1
ExitInterrupted == 130
\* exit code while main() has not returned
Running == 0 - 1
\* Python's None where the code holds an integer or nothing
None == 0 - 1

Min(a, b) == IF a < b THEN a ELSE b

\* ------------------------------------------------------------------ strings
\* A string is a sequence of characters; "NUL" is '\x00', " " is whitespace.
IsSpace(c) == c = " "

RECURSIVE lstrip(_)
lstrip(s) == IF s # <<>> /\ IsSpace(Head(s)) THEN lstrip(Tail(s)) ELSE s

RECURSIVE rstrip(_)
rstrip(s) ==
  IF s # <<>> /\ IsSpace(s[Len(s)]) THEN rstrip(SubSeq(s, 1, Len(s) - 1)) ELSE s

\* str.strip()
strip(s) == rstrip(lstrip(s))

\* str.rstrip('\x00')
RECURSIVE rstrip_nul(_)
rstrip_nul(s) ==
  IF s # <<>> /\ s[Len(s)] = "NUL" THEN rstrip_nul(SubSeq(s, 1, Len(s) - 1)) ELSE s

\* `not s or not s.strip()`
IsBlank(s) == s = <<>> \/ strip(s) = <<>>

\* ----------------------------------------------------------- validate_speed
\* TRUE when validate_speed returns, FALSE when it raises ValueError
validate_speed(speed) ==
  IF speed < MinSpeed THEN FALSE
  ELSE IF speed > MaxSpeed THEN FALSE
  ELSE TRUE

\* ------------------------------------------------------------- big numbers
\* Python integers are unbounded and the limits of parse_address exceed the
\* checker's 32-bit integers: a number is a sign and five 16-bit limbs, most
\* significant first.
Limb == 2^16
Big(neg, limbs) == [neg |-> neg, limbs |-> limbs]
\* the number n, 0 <= n < 2^31
Small(n) == Big(FALSE, <<0, 0, 0, n \div Limb, n % Limb>>)
Minus(n) == Big(TRUE, <<0, 0, 0, n \div Limb, n % Limb>>)

RECURSIVE LimbsGreater(_, _)
LimbsGreater(a, b) ==
  IF a = <<>> THEN FALSE
  ELSE IF Head(a) # Head(b) THEN Head(a) > Head(b)
  ELSE LimbsGreater(Tail(a), Tail(b))

IsZero(v) == \A i \in 1..Len(v.limbs) : v.limbs[i] = 0
\* v < 0, v <= 0, v > w for w >= 0
Negative(v) == v.neg /\ ~IsZero(v)
NotPositive(v) == v.neg \/ IsZero(v)
Greater(v, w) == ~v.neg /\ LimbsGreater(v.limbs, w.limbs)

\* 0xFFFFFFFF and 0xFFFFFFFFFFFFFFFF
MaxRangeSize == Big(FALSE, <<0, 0, 0, Limb - 1, Limb - 1>>)
MaxAddress == Big(FALSE, <<0, Limb - 1, Limb - 1, Limb - 1, Limb - 1>>)
\* 0x100000000 and 0x10000000000000000
OverRangeSize == Big(FALSE, <<0, 0, 1, 0, 0>>)
OverAddress == Big(FALSE, <<1, 0, 0, 0, 0>>)

\* ------------------------------------------------------------ parse_address
\* int() result: num says that int() accepts the text, val is its value
Tok(v) == [num |-> TRUE, empty |-> FALSE, val |-> v]
JunkTok == [num |-> FALSE, empty |-> FALSE, val |-> Small(0)]
\* args.address when -a is not given (None); "" is the empty sequence
NoAddress == <<"None">>
\* `if args.address:`
Truthy(address) == address # NoAddress /\ address # <<>>

\* the characters int() reads as digits, and what they are worth
DecChars == {"0", "1", "2", "3", "4", "5", "6", "7", "8", "9"}
HexChars == DecChars \cup {"a", "b", "c", "d", "e", "f", "A", "B", "C", "D", "E", "F"}
DigitValue(c) ==
  CASE c = "0" -> 0 [] c = "1" -> 1 [] c = "2" -> 2 [] c = "3" -> 3
    [] c = "4" -> 4 [] c = "5" -> 5 [] c = "6" -> 6 [] c = "7" -> 7
    [] c = "8" -> 8 [] c = "9" -> 9
    [] c \in {"a", "A"} -> 10 [] c \in {"b", "B"} -> 11
    [] c \in {"c", "C"} -> 12 [] c \in {"d", "D"} -> 13
    [] c \in {"e", "E"} -> 14 [] c \in {"f", "F"} -> 15

\* limbs * base + carry
RECURSIVE MulAdd(_, _, _)
MulAdd(limbs, base, carry) ==
  IF limbs = <<>> THEN <<>>
  ELSE LET x == limbs[Len(limbs)] * base + carry IN
       Append(MulAdd(SubSeq(limbs, 1, Len(limbs) - 1), base, x \div Limb), x % Limb)

\* the value of a digit string in the given base, from the value acc of the
\* digits already read
RECURSIVE DigitsValue(_, _, _)
DigitsValue(digits, base, acc) ==
  IF digits = <<>> THEN acc
  ELSE DigitsValue(Tail(digits), base, MulAdd(acc, base, DigitValue(Head(digits))))

startswith(s, prefix) ==
  Len(s) >= Len(prefix) /\ SubSeq(s, 1, Len(prefix)) = prefix

\* int(s): an optional '-' and decimal digits (of what int() accepts besides,
\* '+', '_' and inner whitespace are not in the model's alphabet)
int_decimal(s) ==
  LET neg == s # <<>> /\ Head(s) = "-"
      digits == IF neg THEN Tail(s) ELSE s
  IN IF digits # <<>> /\ \A i \in 1..Len(digits) : digits[i] \in DecChars
       THEN Tok(Big(neg, DigitsValue(digits, 10, Small(0).limbs)))
     ELSE JunkTok

\* int(s, 16) for s that starts with 0x or 0X
int_hex(s) ==
  LET digits == SubSeq(s, 3, Len(s))
  IN IF digits # <<>> /\ \A i \in 1..Len(digits) : digits[i] \in HexChars
       THEN Tok(Big(FALSE, DigitsValue(digits, 16, Small(0).limbs)))
     ELSE JunkTok

\* `int(s, 16) if s.startswith('0x') else int(s, 16) if s.startswith('0X')
\* else int(s)`
to_int(s) ==
  IF startswith(s, <<"0", "x">>) THEN int_hex(s)
  ELSE IF startswith(s, <<"0", "X">>) THEN int_hex(s)
  ELSE int_decimal(s)

\* s.split(',')
RECURSIVE split(_)
split(s) ==
  IF \A i \in 1..Len(s) : s[i] # "," THEN <<s>>
  ELSE LET i == CHOOSE k \in 1..Len(s) :
                   s[k] = "," /\ \A h \in 1..(k - 1) : s[h] # ","
       IN <<SubSeq(s, 1, i - 1)>> \o split(SubSeq(s, i + 1, Len(s)))

\* (first, second); second is NoSize for a specific address (None)
NoSize == Minus(1)
AddrOk(a, b) == [ok |-> TRUE, kind |-> "", first |-> a, second |-> b]
AddrErr(k) == [ok |-> FALSE, kind |-> k, first |-> NoSize, second |-> NoSize]

\* mutant: the upper limit of the size is not checked
parse_address_NoSizeLimit(address_str) ==
  LET parts == split(strip(address_str))
      start == to_int(strip(parts[1]))
      size == to_int(strip(parts[Len(parts)]))
  IN IF Len(parts) # 2 \/ ~start.num \/ ~size.num THEN AddrErr("range_format")
     ELSE IF Negative(start.val) THEN AddrErr("range_start")
     ELSE IF NotPositive(size.val) THEN AddrErr("range_size")
     ELSE AddrOk(start.val, size.val)

\* ok FALSE: ValueError of the kind given
parse_address(address_str) ==
  IF address_str = <<>> \/ strip(address_str) = <<>> THEN AddrErr("empty")
  ELSE LET s == strip(address_str) IN
    IF \E i \in 1..Len(s) : s[i] = "," THEN
      LET parts == split(s) IN
      IF Len(parts) # 2 THEN AddrErr("range_format")
      ELSE LET start_str == strip(parts[1])
               size_str == strip(parts[2])
           IN
        IF start_str = <<>> \/ size_str = <<>> THEN AddrErr("range_format")
        ELSE LET start == to_int(start_str)
                 size == to_int(size_str)
             IN
          IF ~start.num \/ ~size.num THEN AddrErr("range_number")
          ELSE IF Negative(start.val) THEN AddrErr("range_start")
          ELSE IF NotPositive(size.val) THEN AddrErr("range_size")
          ELSE IF Greater(size.val, MaxRangeSize) THEN AddrErr("range_size_large")
          ELSE AddrOk(start.val, size.val)
    ELSE LET addr == to_int(s) IN
      IF ~addr.num THEN AddrErr("addr_format")
      ELSE IF Negative(addr.val) THEN AddrErr("addr_negative")
      ELSE IF Greater(addr.val, MaxAddress) THEN AddrErr("addr_large")
      ELSE AddrOk(addr.val, NoSize)

\* ------------------------------------------------------------ is_rtt_active
\* What the probe answers during one attempt.  A count of RttExc / OtherExc
\* means the query raises JLinkRTTException / another exception.
RttExc == 0 - 1
OtherExc == 0 - 2

\* o.has_is_active: hasattr(jlink, 'rtt_is_active'); o.is_active: its answer
\* ("yes", "no", "raise"); o.num_up: rtt_get_num_up_buffers()
is_rtt_active(o) ==
  IF o.has_is_active THEN o.is_active = "yes"
  ELSE IF o.num_up < 0 THEN FALSE
  ELSE o.num_up > 0

\* ------------------------------------------------------ find_buffer_by_name
\* descriptor answers: None, a raised JLinkRTTException, another raised
\* exception, or a descriptor
DescNone == [kind |-> "none", name |-> <<>>, size |-> 0]
DescExc == [kind |-> "rtt_exc", name |-> <<>>, size |-> 0]
DescOtherExc == [kind |-> "other_exc", name |-> <<>>, size |-> 0]
Desc(n, sz) == [kind |-> "desc", name |-> n, size |-> sz]

Found(i, d, checks, sleeps) ==
  [kind |-> "found", index |-> i, desc |-> d, err |-> "", wrapped |-> FALSE,
   checks |-> checks, sleeps |-> sleeps]
NotFound(checks, sleeps) ==
  [kind |-> "not_found", index |-> -1, desc |-> DescNone, err |-> "",
   wrapped |-> FALSE, checks |-> checks, sleeps |-> sleeps]
\* RTTBridgeError; wrapped: raised inside the try and re-raised by the
\* `except Exception` clause as "Unexpected error while searching ..."
BridgeError(e, w, checks, sleeps) ==
  [kind |-> "error", index |-> -1, desc |-> DescNone, err |-> e,
   wrapped |-> w, checks |-> checks, sleeps |-> sleeps]

\* mutant: an error while reading a descriptor ends the scan
RECURSIVE ScanDescriptors_AbortsOnError(_, _, _, _)
ScanDescriptors_AbortsOnError(descs, num_buffers, name, index) ==
  IF index >= num_buffers THEN [kind |-> "not_found", index |-> -1]
  ELSE LET desc == descs[index + 1] IN
    IF desc.kind = "none"
      THEN ScanDescriptors_AbortsOnError(descs, num_buffers, name, index + 1)
    ELSE IF desc.kind = "rtt_exc" THEN [kind |-> "not_found", index |-> -1]
    ELSE IF desc.kind = "other_exc" THEN [kind |-> "raised", index |-> index]
    ELSE IF rstrip_nul(desc.name) = name THEN
      IF desc.size = 0 THEN [kind |-> "zero_size", index |-> index]
      ELSE [kind |-> "found", index |-> index]
    ELSE ScanDescriptors_AbortsOnError(descs, num_buffers, name, index + 1)

\* mutant: the names are compared without regard to case
ToUpper(c) == IF c = "t" THEN "T" ELSE c
RECURSIVE ScanDescriptors_IgnoresCase(_, _, _, _)
ScanDescriptors_IgnoresCase(descs, num_buffers, name, index) ==
  IF index >= num_buffers THEN [kind |-> "not_found", index |-> -1]
  ELSE LET desc == descs[index + 1]
           buffer_name == rstrip_nul(desc.name)
       IN
    IF desc.kind = "none"
      THEN ScanDescriptors_IgnoresCase(descs, num_buffers, name, index + 1)
    ELSE IF desc.kind = "rtt_exc"
      THEN ScanDescriptors_IgnoresCase(descs, num_buffers, name, index + 1)
    ELSE IF desc.kind = "other_exc" THEN [kind |-> "raised", index |-> index]
    ELSE IF [i \in 1..Len(buffer_name) |-> ToUpper(buffer_name[i])]
              = [i \in 1..Len(name) |-> ToUpper(name[i])] THEN
      IF desc.size = 0 THEN [kind |-> "zero_size", index |-> index]
      ELSE [kind |-> "found", index |-> index]
    ELSE ScanDescriptors_IgnoresCase(descs, num_buffers, name, index + 1)

\* the descriptor scan `for index in range(num_buffers)`: "found", i |
\* "zero_size", i | "not_found" | "raised", i (an exception the inner
\* except clause does not name)
RECURSIVE ScanDescriptors(_, _, _, _)
ScanDescriptors(descs, num_buffers, name, index) ==
  IF index >= num_buffers THEN [kind |-> "not_found", index |-> -1]
  ELSE LET desc == descs[index + 1] IN
    IF desc.kind = "none" THEN ScanDescriptors(descs, num_buffers, name, index + 1)
    ELSE IF desc.kind = "rtt_exc" THEN ScanDescriptors(descs, num_buffers, name, index + 1)
    ELSE IF desc.kind = "other_exc" THEN [kind |-> "raised", index |-> index]
    ELSE IF rstrip_nul(desc.name) = name THEN
      IF desc.size = 0 THEN [kind |-> "zero_size", index |-> index]
      ELSE [kind |-> "found", index |-> index]
    ELSE ScanDescriptors(descs, num_buffers, name, index + 1)

\* env[attempt + 1] is what the probe answers during that attempt:
\* [has_is_active, is_active, num_up, num_down, descs (the descriptors of the
\* direction asked for)]
RECURSIVE FindAttempt(_, _, _, _, _, _)
FindAttempt(env, name, up, max_retries, attempt, sleeps) ==
  IF attempt >= max_retries THEN NotFound(attempt, sleeps)
  ELSE LET o == env[attempt + 1]
           last == ~(attempt < max_retries - 1)
           num_buffers == IF up THEN o.num_up ELSE o.num_down
       IN
    IF ~is_rtt_active(o) THEN
      IF ~last THEN FindAttempt(env, name, up, max_retries, attempt + 1, sleeps + 1)
      ELSE BridgeError("rtt_not_active", TRUE, attempt + 1, sleeps)
    ELSE IF num_buffers = RttExc THEN
      IF ~last THEN FindAttempt(env, name, up, max_retries, attempt + 1, sleeps + 1)
      ELSE BridgeError("query_failed", FALSE, attempt + 1, sleeps)
    ELSE IF num_buffers = OtherExc
      THEN BridgeError("unexpected", TRUE, attempt + 1, sleeps)
    ELSE IF num_buffers = 0 THEN
      IF ~last THEN FindAttempt(env, name, up, max_retries, attempt + 1, sleeps + 1)
      ELSE BridgeError(IF up THEN "no_up_buffers" ELSE "no_down_buffers", TRUE,
                       attempt + 1, sleeps)
    ELSE LET r == ScanDescriptors(o.descs, num_buffers, name, 0) IN
      IF r.kind = "found" THEN Found(r.index, o.descs[r.index + 1], attempt + 1, sleeps)
      ELSE IF r.kind = "zero_size" THEN BridgeError("zero_size", TRUE, attempt + 1, sleeps)
      ELSE IF r.kind = "raised" THEN BridgeError("unexpected", TRUE, attempt + 1, sleeps)
      ELSE NotFound(attempt + 1, sleeps)

find_buffer_by_name(env, name, up, max_retries) ==
  IF IsBlank(name) THEN NotFound(0, 0)
  ELSE FindAttempt(env, strip(name), up, max_retries, 0, 0)

\* -------------------------------------------------- verify_jlink_connection
\* s: what the session answers: [opened, connected, target, ident] booleans
\* and exc: "none", or "jlink" when a query raises JLinkException.
\* TRUE when it returns, FALSE when it raises RTTBridgeError.
verify_jlink_connection(s) ==
  IF s.exc = "jlink" THEN FALSE
  ELSE IF ~s.opened THEN FALSE
  ELSE IF ~s.connected THEN FALSE
  ELSE IF ~s.target THEN FALSE
  ELSE IF ~s.ident THEN FALSE
  ELSE TRUE

\* the relay loop's own check (lines 605-611): TRUE when the loop goes on
loop_connection_check(s) ==
  IF s.exc # "none" THEN FALSE
  ELSE IF ~s.connected \/ ~s.target THEN FALSE
  ELSE TRUE

SessionAnswers ==
  [opened : BOOLEAN, connected : BOOLEAN, target : BOOLEAN, ident : BOOLEAN,
   exc : {"none", "jlink"}]

\* ------------------------------------------------------------------ inputs
\* "T" stands for the requested buffer name, "t" for the same in lower case
BaseArgs ==
  [speed |-> DefaultSpeed, address |-> NoAddress, buffer |-> <<"T">>,
   bidir |-> FALSE, link |-> FALSE, print_bufs |-> FALSE]

\* command lines: the defaults, --bidir, --link, -p, the two address forms,
\* -a "", and the invalid speeds, addresses and buffer names
Invocations ==
  {BaseArgs, [BaseArgs EXCEPT !.bidir = TRUE], [BaseArgs EXCEPT !.link = TRUE],
   [BaseArgs EXCEPT !.print_bufs = TRUE]}
  \cup {[BaseArgs EXCEPT !.address = a] :
          a \in {<<"0", "x", "2", "0", "0", "0", "0", "0", "0", "0">>,
                 <<"0", "x", "2", "0", "0", "0", "0", "0", "0", "0", ",", "0", "x", "1", "0", "0", "0">>,
                 <<>>,
                 <<" ">>,
                 <<"z", "z">>,
                 <<"0", "x", "1", "0", "0", "0", "0", "0", "0", "0", "0", "0", "0", "0", "0", "0", "0", "0", "0">>,
                 <<"0", ",", "0">>,
                 <<"0", ",", "0", "x", "1", "0", "0", "0", "0", "0", "0", "0", "0">>,
                 <<"1", ",", "2", ",", "3">>}}
  \cup {[BaseArgs EXCEPT !.speed = v] : v \in {MinSpeed - 1, MaxSpeed + 1}}
  \cup {[BaseArgs EXCEPT !.buffer = n] : n \in {<<>>, <<" ">>, <<" ", "T">>}}

\* what the probe answers during one attempt of a buffer lookup
Attempt(act, n, ds) ==
  [has_is_active |-> TRUE, is_active |-> act, num_up |-> n, num_down |-> n,
   descs |-> ds]
AttGood == Attempt("yes", 1, <<Desc(<<"T", "NUL">>, 1024)>>)
AttSecond == Attempt("yes", MaxBuffers, [i \in 1..MaxBuffers |->
                 IF i = MaxBuffers THEN Desc(<<"T">>, 16) ELSE DescExc])
AttInactive == Attempt("no", 0, <<>>)
AttNoBuffers == Attempt("yes", 0, <<>>)
AttNoMatch == Attempt("yes", 1, <<Desc(<<"t">>, 16)>>)
AttZeroSize == Attempt("yes", 1, <<Desc(<<"T">>, 0)>>)
AttQueryFails == Attempt("yes", RttExc, <<>>)

\* the sessions main() is run against: the same answer on every attempt, or
\* a target that registers its buffers only by the last attempt
FailingSessions ==
  {[i \in 1..DefaultMaxRetries |-> a] :
      a \in {AttInactive, AttNoBuffers, AttNoMatch, AttZeroSize, AttQueryFails}}
LateSession(good) ==
  [i \in 1..DefaultMaxRetries |->
     IF i = DefaultMaxRetries THEN good
     ELSE IF i = 1 THEN AttInactive ELSE AttNoBuffers]
\* the target's up-buffer of that name is its first, its down-buffer the last
UpSessions ==
  FailingSessions \cup {[i \in 1..DefaultMaxRetries |-> AttGood], LateSession(AttGood)}
DownSessions ==
  FailingSessions \cup {[i \in 1..DefaultMaxRetries |-> AttSecond], LateSession(AttSecond)}

\* -------------------------------------------------------------- file system
\* What lies at the --link path: nothing, a regular file, a symlink whose
\* target exists, a dangling symlink, or the symlink to this run's PTY.
LinkStates == {"none", "file", "live_link", "dead_link", "pty_link"}

\* os.path.exists follows symlinks
path_exists(fs, slaveNodeExists) ==
  \/ fs = "file"
  \/ fs = "live_link"
  \/ fs = "pty_link" /\ slaveNodeExists

path_islink(fs) == fs \in {"live_link", "dead_link", "pty_link"}

\* mutant: whatever lies at the path is removed, a regular file too
create_symlink_Overwrites(fs, slaveNodeExists, remove_fails, symlink_fails) ==
  IF remove_fails \/ symlink_fails THEN [ok |-> FALSE, fs |-> fs]
  ELSE [ok |-> TRUE, fs |-> "pty_link"]

\* create_symlink(pty_name, link_path) on file system state fs; remove_fails,
\* symlink_fails: the OS refuses os.remove / os.makedirs or os.symlink.
\* ok FALSE: RTTBridgeError.
create_symlink(fs, slaveNodeExists, remove_fails, symlink_fails) ==
  IF path_exists(fs, slaveNodeExists) /\ ~path_islink(fs)
    THEN [ok |-> FALSE, fs |-> fs]
  ELSE IF path_exists(fs, slaveNodeExists) /\ remove_fails
    THEN [ok |-> FALSE, fs |-> fs]
  ELSE LET fs1 == IF path_exists(fs, slaveNodeExists) THEN "none" ELSE fs IN
    IF fs1 # "none" \/ symlink_fails THEN [ok |-> FALSE, fs |-> fs1]
    ELSE [ok |-> TRUE, fs |-> "pty_link"]

\* ------------------------------------------------------------------- state
VARIABLES
  args,              \* the parsed command line
  pc,                \* position in main()
  exitCode,          \* main()'s return value, Running until it returns
  jlink,             \* TRUE once jlink holds a pylink.JLink instance
  sessionOpen,       \* the probe session is open
  rttStarted,        \* RTT is running on the probe
  rtt_wait_elapsed,  \* time.time() - rtt_wait_start
  index_up, index_down,
  master_fd, slave_fd, \* None or the descriptor
  openFds,           \* descriptors of the PTY pair the process holds open
  slaveNode,         \* the PTY slave path exists in the file system
  symlink_path,      \* TRUE once symlink_path = args.link
  fsLink,            \* what lies at args.link
  handlers,          \* signal_handler is installed
  do_exit,
  consecutive_errors,
  data,              \* the chunk in flight between a read and its write
  upRead,            \* bytes taken from the up-buffer so far
  ptyHanded,         \* bytes handed to os.write(master_fd, ...)
  ptyOut,            \* bytes the PTY master accepted
  downRead,          \* bytes taken from the PTY master so far
  rttHanded,         \* <<index, byte>> handed to rtt_write
  rttOut,            \* bytes the down-buffer accepted
  calls,             \* probe and teardown calls made, in order ("rtt_active":
                     \* the is_rtt_active call that answered True)
  stdout, stderr,    \* lines printed, by kind
  lookup,            \* a call of find_buffer_by_name taken on its own: its
                     \* arguments, the session's answers and its outcome
  call               \* a call of parse_address, create_symlink or the two
                     \* connection checks taken on its own: [fn, arg, done, out]

vars ==
  <<args, pc, exitCode, jlink, sessionOpen, rttStarted, rtt_wait_elapsed,
    index_up, index_down, master_fd, slave_fd, openFds, slaveNode,
    symlink_path, fsLink, handlers, do_exit, consecutive_errors, data,
    upRead, ptyHanded, ptyOut, downRead, rttHanded, rttOut, calls,
    stdout, stderr, lookup, call>>

MasterFd == 3
SlaveFd == 4

\* find_buffer_by_name has not returned / is not looked at on its own
NotCalled ==
  [kind |-> "pending", index |-> -1, desc |-> DescNone, err |-> "",
   wrapped |-> FALSE, checks |-> 0, sleeps |-> 0]
NoLookup ==
  [env |-> <<>>, name |-> <<>>, up |-> TRUE, max_retries |-> 0, result |-> NotCalled]
\* no function is looked at on its own
NoCall == [fn |-> "none", arg |-> <<>>, done |-> FALSE, out |-> <<>>]

probeVars == <<jlink, sessionOpen, rttStarted, rtt_wait_elapsed>>
findVars == <<index_up, index_down>>
ptyVars == <<master_fd, slave_fd, openFds, slaveNode, symlink_path, fsLink>>
loopVars == <<do_exit, consecutive_errors, data>>
upVars == <<upRead, ptyHanded, ptyOut>>
downVars == <<downRead, rttHanded, rttOut>>
dataVars == <<upRead, ptyHanded, ptyOut, downRead, rttHanded, rttOut>>

Init ==
  /\ args \in Invocations
  /\ pc = "start"
  /\ exitCode = Running
  /\ jlink = FALSE
  /\ sessionOpen = FALSE
  /\ rttStarted = FALSE
  /\ rtt_wait_elapsed = 0
  /\ index_up = -1
  /\ index_down = -1
  /\ master_fd = None
  /\ slave_fd = None
  /\ openFds = {}
  /\ slaveNode = FALSE
  /\ symlink_path = FALSE
  /\ fsLink \in (IF args.link THEN LinkStates \ {"pty_link"} ELSE {"none"})
  /\ handlers = FALSE
  /\ do_exit = FALSE
  /\ consecutive_errors = 0
  /\ data = <<>>
  /\ upRead = 0
  /\ ptyHanded = <<>>
  /\ ptyOut = <<>>
  /\ downRead = 0
  /\ rttHanded = <<>>
  /\ rttOut = <<>>
  /\ calls = <<>>
  /\ stdout = {}
  /\ stderr = {}
  /\ lookup = NoLookup
  /\ call = NoCall

\* `return code` from main()
Return(code) ==
  /\ pc' = "done"
  /\ exitCode' = code

\* print(..., file=sys.stderr) and print(...)
Err(tag) == stderr' = stderr \cup {tag}
Out(tag) == stdout' = stdout \cup {tag}

\* jlink.close() on an error path before the relay loop, then `return code`;
\* no try surrounds the call: when it raises, the outer `except
\* pylink.errors.JLinkException` returns 1
CloseAndReturn(prefix, code) ==
  \E raises \in BOOLEAN :
    /\ calls' = calls \o prefix \o <<"jlink_close">>
    /\ sessionOpen' = (sessionOpen /\ raises)
    /\ Return(IF raises THEN ExitError ELSE code)

\* -------------------------------------------------------- main: validation
Validate ==
  /\ pc = "start"
  /\ IF ~validate_speed(args.speed) THEN Err("error_speed") /\ Return(ExitError)
     ELSE IF Truthy(args.address) /\ ~parse_address(args.address).ok
       THEN Err("error_address") /\ Return(ExitError)
     ELSE IF IsBlank(args.buffer) THEN Err("error_buffer") /\ Return(ExitError)
     ELSE pc' = "create" /\ UNCHANGED <<exitCode, stderr>>
  /\ UNCHANGED <<args, lookup, call, probeVars, findVars, ptyVars, handlers, loopVars,
                 dataVars, calls, stdout>>

\* ------------------------------------------------- main: opening the probe
CreateJLink ==
  /\ pc = "create"
  /\ calls' = Append(calls, "JLink")
  /\ \E ok \in BOOLEAN :
       IF ok THEN jlink' = TRUE /\ pc' = "open" /\ UNCHANGED <<exitCode, stderr>>
       ELSE Err("error_create") /\ Return(ExitError) /\ UNCHANGED jlink
  /\ UNCHANGED <<args, lookup, call, sessionOpen, rttStarted, rtt_wait_elapsed, findVars,
                 ptyVars, handlers, loopVars, dataVars, stdout>>

Open ==
  /\ pc = "open"
  /\ calls' = Append(calls, "open")
  /\ \E ok \in BOOLEAN :
       IF ok THEN sessionOpen' = TRUE /\ pc' = "opened" /\ UNCHANGED <<exitCode, stderr>>
       ELSE Err("error_open") /\ Return(ExitError) /\ UNCHANGED sessionOpen
  /\ UNCHANGED <<args, lookup, call, jlink, rttStarted, rtt_wait_elapsed, findVars, ptyVars,
                 handlers, loopVars, dataVars, stdout>>

CheckOpened ==
  /\ pc = "opened"
  /\ \E opened \in BOOLEAN :
       IF opened THEN pc' = "connect" /\ UNCHANGED <<exitCode, stderr, calls, sessionOpen>>
       ELSE Err("error_not_open") /\ CloseAndReturn(<<>>, ExitError)
  /\ UNCHANGED <<args, lookup, call, jlink, rttStarted, rtt_wait_elapsed, findVars, ptyVars,
                 handlers, loopVars, dataVars, stdout>>

Connect ==
  /\ pc = "connect"
  /\ \E ok \in BOOLEAN :
       IF ok THEN /\ calls' = Append(calls, "connect")
                  /\ pc' = "verify"
                  /\ UNCHANGED <<exitCode, stderr, sessionOpen>>
       ELSE Err("error_connect") /\ CloseAndReturn(<<"connect">>, ExitError)
  /\ UNCHANGED <<args, lookup, call, jlink, rttStarted, rtt_wait_elapsed, findVars, ptyVars,
                 handlers, loopVars, dataVars, stdout>>

Verify ==
  /\ pc = "verify"
  /\ \E s \in SessionAnswers :
       IF verify_jlink_connection(s)
         THEN pc' = "rtt_start" /\ UNCHANGED <<exitCode, stderr, calls, sessionOpen>>
       ELSE Err("error_verify") /\ CloseAndReturn(<<>>, ExitError)
  /\ UNCHANGED <<args, lookup, call, jlink, rttStarted, rtt_wait_elapsed, findVars, ptyVars,
                 handlers, loopVars, dataVars, stdout>>

\* how jlink.rtt_start is called for the address given
RttStartMode(address) ==
  IF Truthy(address)
    THEN IF parse_address(address).second # NoSize THEN "rtt_start_range"
         ELSE "rtt_start_address"
  ELSE "rtt_start_auto"

\* "Configuring RTT...", then time.sleep(0.5) and rtt_wait_start = time.time()
RttStart ==
  /\ pc = "rtt_start"
  /\ \E ok \in BOOLEAN :
       IF ok THEN /\ calls' = Append(calls, RttStartMode(args.address))
                  /\ rttStarted' = TRUE
                  /\ rtt_wait_elapsed' = 0
                  /\ pc' = "rtt_wait"
                  /\ UNCHANGED <<exitCode, stderr, sessionOpen>>
       ELSE /\ Err("error_rtt_start")
            /\ CloseAndReturn(<<RttStartMode(args.address)>>, ExitError)
            /\ UNCHANGED <<rttStarted, rtt_wait_elapsed>>
  /\ UNCHANGED <<args, lookup, call, jlink, findVars, ptyVars, handlers, loopVars, dataVars,
                 stdout>>

\* mutant: after the timeout the error is printed and main() goes on to the
\* buffer lookup
RttWait_TimeoutNotFatal ==
  /\ pc = "rtt_wait"
  /\ \E active \in BOOLEAN, late \in 0..1 :
       IF active \/ rtt_wait_elapsed > max_rtt_wait
         THEN /\ pc' = IF args.print_bufs THEN "print_bufs" ELSE "find_up"
              /\ rtt_wait_elapsed' = 0
              /\ calls' = Append(calls, "rtt_active")
              /\ IF active THEN UNCHANGED stderr ELSE Err("error_rtt_timeout")
              /\ UNCHANGED <<exitCode, sessionOpen, rttStarted>>
       ELSE /\ rtt_wait_elapsed' = rtt_wait_elapsed + RttPollSleep + late
            /\ UNCHANGED <<pc, exitCode, stderr, calls, sessionOpen, rttStarted>>
  /\ UNCHANGED <<args, lookup, call, jlink, findVars, ptyVars, handlers, loopVars, dataVars,
                 stdout>>

\* one turn of `while not is_rtt_active(jlink)`; the sleep takes RttPollSleep
\* or, with scheduling delay, one unit more.  The elapsed time is not read
\* after the loop and is forgotten when the loop is left.
RttWait ==
  /\ pc = "rtt_wait"
  /\ \E active \in BOOLEAN, stop_raises \in BOOLEAN, late \in 0..1 :
       IF active
         THEN /\ pc' = IF args.print_bufs THEN "print_bufs" ELSE "find_up"
              /\ rtt_wait_elapsed' = 0
              /\ calls' = Append(calls, "rtt_active")
              /\ UNCHANGED <<exitCode, stderr, sessionOpen, rttStarted>>
       ELSE IF rtt_wait_elapsed > max_rtt_wait
         THEN /\ Err("error_rtt_timeout")
              /\ rttStarted' = (rttStarted /\ stop_raises)
              /\ CloseAndReturn(<<"rtt_stop">>, ExitError)
              /\ UNCHANGED rtt_wait_elapsed
       ELSE /\ rtt_wait_elapsed' = rtt_wait_elapsed + RttPollSleep + late
            /\ UNCHANGED <<pc, exitCode, stderr, calls, sessionOpen, rttStarted>>
  /\ UNCHANGED <<args, lookup, call, jlink, findVars, ptyVars, handlers, loopVars, dataVars,
                 stdout>>

\* -p: print_buffers(jlink), close, return 0 or 1
PrintBufs ==
  /\ pc = "print_bufs"
  /\ \E success \in BOOLEAN :
       /\ Out("buffers")
       /\ CloseAndReturn(<<"print_buffers">>, IF success THEN ExitOk ELSE ExitError)
  /\ UNCHANGED <<args, lookup, call, jlink, rttStarted, rtt_wait_elapsed, findVars, ptyVars,
                 handlers, loopVars, dataVars, stderr>>

\* ---------------------------------------------- main: resolving the buffers
\* mutant: the session is closed before the buffers are listed
LookupFailed_ClosesFirst(tag) ==
  /\ Err(tag)
  /\ Out("buffers")
  /\ calls' = calls \o <<"jlink_close", "print_buffers">>
  /\ sessionOpen' = FALSE
  /\ Return(ExitError)

\* the lookup failed or found nothing: list the buffers, close, return 1
LookupFailed(tag) ==
  /\ Err(tag)
  /\ Out("buffers")
  /\ CloseAndReturn(<<"print_buffers">>, ExitError)

\* mutant: the `if index_up < 0` check is missing
FindUp_NoCheck ==
  /\ pc = "find_up"
  /\ \E env \in UpSessions :
       LET r == find_buffer_by_name(env, args.buffer, TRUE, DefaultMaxRetries) IN
       IF r.kind = "error" THEN LookupFailed("error_up_lookup") /\ UNCHANGED index_up
       ELSE /\ index_up' = r.index
            /\ pc' = IF args.bidir THEN "find_down" ELSE "create_pty"
            /\ Out("using_up")
            /\ UNCHANGED <<exitCode, stderr, calls, sessionOpen>>
  /\ UNCHANGED <<args, lookup, call, jlink, rttStarted, rtt_wait_elapsed, index_down, ptyVars,
                 handlers, loopVars, dataVars>>

FindUp ==
  /\ pc = "find_up"
  /\ \E env \in UpSessions :
       LET r == find_buffer_by_name(env, args.buffer, TRUE, DefaultMaxRetries) IN
       IF r.kind = "error" THEN LookupFailed("error_up_lookup") /\ UNCHANGED index_up
       ELSE IF r.index < 0 THEN LookupFailed("error_up_not_found") /\ UNCHANGED index_up
       ELSE /\ index_up' = r.index
            /\ pc' = IF args.bidir THEN "find_down" ELSE "create_pty"
            /\ Out("using_up")
            /\ UNCHANGED <<exitCode, stderr, calls, sessionOpen>>
  /\ UNCHANGED <<args, lookup, call, jlink, rttStarted, rtt_wait_elapsed, index_down, ptyVars,
                 handlers, loopVars, dataVars>>

FindDown ==
  /\ pc = "find_down"
  /\ \E env \in DownSessions :
       LET r == find_buffer_by_name(env, args.buffer, FALSE, DefaultMaxRetries) IN
       IF r.kind = "error" THEN LookupFailed("error_down_lookup") /\ UNCHANGED index_down
       ELSE IF r.index < 0 THEN LookupFailed("error_down_not_found") /\ UNCHANGED index_down
       ELSE /\ index_down' = r.index
            /\ pc' = "create_pty"
            /\ Out("using_down")
            /\ UNCHANGED <<exitCode, stderr, calls, sessionOpen>>
  /\ UNCHANGED <<args, lookup, call, jlink, rttStarted, rtt_wait_elapsed, index_up, ptyVars,
                 handlers, loopVars, dataVars>>

\* ------------------------------------------------------- main: PTY endpoint
\* create_pty() by what the OS does: "ok"; "openpty_fails" (pty.openpty
\* raises OSError); "ttyname_raises" (os.ttyname raises OSError: both
\* descriptors are closed); "name_empty" (os.ttyname returns an empty name:
\* the RTTBridgeError passes the `except OSError` clauses, nothing is closed).
\* open: the descriptors left open.
PtyOutcomes == {"ok", "openpty_fails", "ttyname_raises", "name_empty"}

create_pty(outcome) ==
  IF outcome = "openpty_fails" THEN [ok |-> FALSE, open |-> {}]
  ELSE IF outcome = "ttyname_raises" THEN [ok |-> FALSE, open |-> {}]
  ELSE IF outcome = "name_empty" THEN [ok |-> FALSE, open |-> {MasterFd, SlaveFd}]
  ELSE [ok |-> TRUE, open |-> {MasterFd, SlaveFd}]

CreatePty ==
  /\ pc = "create_pty"
  /\ \E outcome \in PtyOutcomes :
       LET r == create_pty(outcome) IN
       /\ openFds' = r.open
       /\ slaveNode' = (r.open # {})
       /\ IF r.ok THEN /\ master_fd' = MasterFd
                       /\ slave_fd' = SlaveFd
                       /\ Out("pty_name")
                       /\ pc' = "symlink"
                       /\ UNCHANGED <<exitCode, stderr, calls, sessionOpen>>
          ELSE /\ Err("error_pty")
               /\ CloseAndReturn(<<>>, ExitError)
               /\ UNCHANGED <<master_fd, slave_fd, stdout>>
  /\ UNCHANGED <<args, lookup, call, jlink, rttStarted, rtt_wait_elapsed, findVars,
                 symlink_path, fsLink, handlers, loopVars, dataVars>>

\* `if args.link:` create_symlink; a failure is only a warning
CreateSymlink ==
  /\ pc = "symlink"
  /\ IF args.link
       THEN \E remove_fails \in BOOLEAN, symlink_fails \in BOOLEAN :
              LET r == create_symlink(fsLink, slaveNode, remove_fails, symlink_fails) IN
              /\ fsLink' = r.fs
              /\ symlink_path' = r.ok
              /\ IF r.ok THEN Out("created_symlink") /\ UNCHANGED stderr
                 ELSE Err("warning_symlink") /\ UNCHANGED stdout
     ELSE UNCHANGED <<fsLink, symlink_path, stdout, stderr>>
  /\ pc' = "signals"
  /\ UNCHANGED <<args, lookup, call, exitCode, probeVars, findVars, master_fd, slave_fd,
                 openFds, slaveNode, handlers, loopVars, dataVars, calls>>

\* do_exit = False; signal.signal(SIGINT/SIGTERM/SIGQUIT, signal_handler);
\* consecutive_errors = 0
InstallSignals ==
  /\ pc = "signals"
  /\ do_exit' = FALSE
  /\ handlers' = TRUE
  /\ consecutive_errors' = 0
  /\ Out("bridge_active")
  /\ pc' = "loop"
  /\ UNCHANGED <<args, lookup, call, exitCode, probeVars, findVars, ptyVars, data, dataVars,
                 calls, stderr>>

\* ------------------------------------------------------------ asynchronous
Signals == {"SIGINT", "SIGTERM", "SIGQUIT"}

\* mutant: the handler raises instead of returning, which abandons the
\* statement main() was at
signal_handler_raises(signum) ==
  /\ handlers
  /\ pc # "done"
  /\ do_exit' = TRUE
  /\ pc' = IF pc \in {"loop", "conn_check", "rtt_read", "backoff", "pty_write",
                      "select", "pty_read", "rtt_write", "idle"}
             THEN "finally" ELSE pc
  /\ Err("shutting_down")
  /\ UNCHANGED <<args, lookup, call, exitCode, probeVars, findVars, ptyVars, handlers,
                 consecutive_errors, data, dataVars, calls, stdout>>

\* signal_handler(signum, frame), run between two steps of main()
signal_handler(signum) ==
  /\ handlers
  /\ pc # "done"
  /\ do_exit' = TRUE
  /\ Err("shutting_down")
  /\ UNCHANGED <<args, lookup, call, pc, exitCode, probeVars, findVars, ptyVars, handlers,
                 consecutive_errors, data, dataVars, calls, stdout>>

Signal == \E signum \in Signals : signal_handler(signum)

\* positions inside the outer try before the handlers are installed
BeforeHandlers ==
  {"create", "open", "opened", "connect", "verify", "rtt_start", "rtt_wait",
   "print_bufs", "find_up", "find_down", "create_pty", "symlink", "signals"}

\* SIGINT under Python's default handler: KeyboardInterrupt reaches the outer
\* `except KeyboardInterrupt`, which returns 130
KeyboardInterrupt ==
  /\ pc \in BeforeHandlers
  /\ ~handlers
  /\ Err("interrupted")
  /\ Return(ExitInterrupted)
  /\ UNCHANGED <<args, lookup, call, probeVars, findVars, ptyVars, handlers, loopVars,
                 dataVars, calls, stdout>>

\* positions of the relay loop (the Active state)
ActivePcs ==
  {"loop", "conn_check", "rtt_read", "backoff", "pty_write", "select",
   "pty_read", "rtt_write", "idle"}

\* another process removes the published symlink while the bridge runs
ExternalUnlink ==
  /\ pc \in ActivePcs
  /\ fsLink = "pty_link"
  /\ fsLink' = "none"
  /\ UNCHANGED <<args, lookup, call, pc, exitCode, probeVars, findVars, master_fd, slave_fd,
                 openFds, slaveNode, symlink_path, handlers, loopVars, dataVars,
                 calls, stdout, stderr>>

\* -------------------------------------------------------------- relay loop
\* bytes are numbered in the order the source emits them: the chunk of n
\* bytes that follows the first k
Chunk(k, n) == [i \in 1..n |-> k + i]

\* where an iteration goes after its up-direction step
\* mutant: the down direction runs whatever the mode
AfterUp_IgnoresMode == "select"

AfterUp == IF args.bidir /\ index_down >= 0 THEN "select" ELSE "idle"

\* `except Exception` of the loop's try: report, then the finally clause
Unexpected ==
  /\ Err("unexpected_error")
  /\ pc' = "finally"

\* mutant: `while True:`
LoopTest_IgnoresFlag ==
  /\ pc = "loop"
  /\ pc' = "conn_check"
  /\ UNCHANGED <<args, lookup, call, exitCode, probeVars, findVars, ptyVars, handlers,
                 loopVars, dataVars, calls, stdout, stderr>>

\* `while not do_exit:`
LoopTest ==
  /\ pc = "loop"
  /\ pc' = IF do_exit THEN "finally" ELSE "conn_check"
  /\ UNCHANGED <<args, lookup, call, exitCode, probeVars, findVars, ptyVars, handlers,
                 loopVars, dataVars, calls, stdout, stderr>>

\* mutant: the lost connection is reported and the iteration goes on
ConnCheck_GoesOn ==
  /\ pc = "conn_check"
  /\ \E s \in SessionAnswers :
       IF loop_connection_check(s) THEN pc' = "rtt_read" /\ UNCHANGED stderr
       ELSE Err("error_connection") /\ pc' = "rtt_read"
  /\ UNCHANGED <<args, lookup, call, exitCode, probeVars, findVars, ptyVars, handlers,
                 loopVars, dataVars, calls, stdout>>

\* mutant: the lost connection is handled as on the paths before the loop,
\* closing the session before leaving
ConnCheck_ClosesSession ==
  /\ pc = "conn_check"
  /\ \E s \in SessionAnswers :
       IF loop_connection_check(s) THEN pc' = "rtt_read" /\ UNCHANGED <<stderr, calls>>
       ELSE /\ Err("error_connection")
            /\ calls' = Append(calls, "jlink_close")
            /\ pc' = "finally"
  /\ UNCHANGED <<args, lookup, call, exitCode, probeVars, findVars, ptyVars, handlers,
                 loopVars, dataVars, stdout>>

ConnCheck ==
  /\ pc = "conn_check"
  /\ \E s \in SessionAnswers :
       IF loop_connection_check(s) THEN pc' = "rtt_read" /\ UNCHANGED stderr
       ELSE Err("error_connection") /\ pc' = "finally"
  /\ UNCHANGED <<args, lookup, call, exitCode, probeVars, findVars, ptyVars, handlers,
                 loopVars, dataVars, calls, stdout>>

\* what jlink.rtt_read does: returns bytes, returns an empty list, raises
\* JLinkRTTException, raises a JLinkException of another class, raises
\* anything else
ReadOutcomes == {"data", "empty", "rtt_exception", "jlink_exception", "other_exception"}

\* mutant: JLinkRTTException is counted like any other JLinkException
rtt_read_result_CountsRttException(outcome, errors) ==
  IF outcome = "data" THEN [consecutive_errors |-> errors, next |-> "pty_write", err |-> ""]
  ELSE IF outcome = "empty"
    THEN [consecutive_errors |-> errors, next |-> "after_up", err |-> ""]
  ELSE IF outcome \in {"rtt_exception", "jlink_exception"}
    THEN IF errors + 1 >= max_consecutive_errors
           THEN [consecutive_errors |-> errors + 1, next |-> "finally",
                 err |-> "error_too_many"]
         ELSE [consecutive_errors |-> errors + 1, next |-> "backoff", err |-> ""]
  ELSE [consecutive_errors |-> errors, next |-> "finally", err |-> "unexpected_error"]

\* the try around rtt_read (lines 614-638) up to the PTY write, for each
\* outcome of the read and the value errors of consecutive_errors: the new
\* value of the counter, where the iteration goes on, what is printed
rtt_read_result(outcome, errors) ==
  IF outcome = "data" THEN [consecutive_errors |-> errors, next |-> "pty_write", err |-> ""]
  ELSE IF outcome = "empty"
    THEN [consecutive_errors |-> errors, next |-> "after_up", err |-> ""]
  ELSE IF outcome = "rtt_exception"
    THEN [consecutive_errors |-> 0, next |-> "after_up", err |-> ""]
  ELSE IF outcome = "jlink_exception"
    THEN IF errors + 1 >= max_consecutive_errors
           THEN [consecutive_errors |-> errors + 1, next |-> "finally",
                 err |-> "error_too_many"]
         ELSE [consecutive_errors |-> errors + 1, next |-> "backoff", err |-> ""]
  ELSE [consecutive_errors |-> errors, next |-> "finally", err |-> "unexpected_error"]

\* data = jlink.rtt_read(index_up, 4096) and the except clauses of its try
RttRead ==
  /\ pc = "rtt_read"
  /\ \E outcome \in ReadOutcomes :
       LET r == rtt_read_result(outcome, consecutive_errors) IN
       /\ IF outcome = "data"
            THEN \E n \in 1..Min(Min(ReadSize, MaxChunkLen), MaxUpBytes - upRead) :
                   /\ data' = Chunk(upRead, n)
                   /\ upRead' = upRead + n
          ELSE UNCHANGED <<data, upRead>>
       /\ consecutive_errors' = r.consecutive_errors
       /\ pc' = IF r.next = "after_up" THEN AfterUp ELSE r.next
       /\ IF r.err = "" THEN UNCHANGED stderr ELSE Err(r.err)
  /\ UNCHANGED <<args, lookup, call, exitCode, probeVars, findVars, ptyVars, handlers,
                 do_exit, ptyHanded, ptyOut, downVars, calls, stdout>>

\* mutant: after the backoff the next iteration starts without the loop test
Backoff_SkipsTest ==
  /\ pc = "backoff"
  /\ pc' = "conn_check"
  /\ UNCHANGED <<args, lookup, call, exitCode, probeVars, findVars, ptyVars, handlers,
                 loopVars, dataVars, calls, stdout, stderr>>

\* mutant: after the backoff the iteration goes on with the down direction
Backoff_RunsDown ==
  /\ pc = "backoff"
  /\ pc' = AfterUp
  /\ UNCHANGED <<args, lookup, call, exitCode, probeVars, findVars, ptyVars, handlers,
                 loopVars, dataVars, calls, stdout, stderr>>

\* time.sleep(0.1); continue
Backoff ==
  /\ pc = "backoff"
  /\ pc' = "loop"
  /\ UNCHANGED <<args, lookup, call, exitCode, probeVars, findVars, ptyVars, handlers,
                 loopVars, dataVars, calls, stdout, stderr>>

\* mutant: the chunk is written to the PTY master twice
PtyWrite_Twice ==
  /\ pc = "pty_write"
  /\ ptyHanded' = ptyHanded \o data \o data
  /\ ptyOut' = ptyOut \o data \o data
  /\ data' = <<>>
  /\ consecutive_errors' = 0
  /\ pc' = AfterUp
  /\ UNCHANGED <<args, lookup, call, exitCode, probeVars, findVars, ptyVars, handlers,
                 do_exit, upRead, downVars, calls, stdout, stderr>>

\* mutant: after a short write the rest of the chunk is written again until
\* the PTY master has taken all of it
PtyWrite_Retries ==
  /\ pc = "pty_write"
  /\ ptyHanded' = ptyHanded \o data
  /\ \E n \in 1..Len(data) :
       /\ ptyOut' = ptyOut \o SubSeq(data, 1, n)
       /\ data' = SubSeq(data, n + 1, Len(data))
       /\ consecutive_errors' = 0
       /\ pc' = IF n # Len(data) THEN "pty_write" ELSE AfterUp
  /\ UNCHANGED <<args, lookup, call, exitCode, probeVars, findVars, ptyVars, handlers,
                 do_exit, upRead, downVars, calls, stdout, stderr>>

\* bytes_written = os.write(master_fd, bytes(data)); the chunk is done with
\* once the call returns or raises
PtyWrite ==
  /\ pc = "pty_write"
  /\ ptyHanded' = ptyHanded \o data
  /\ data' = <<>>
  /\ \/ \E n \in 1..Len(data) :
          /\ ptyOut' = ptyOut \o SubSeq(data, 1, n)
          /\ IF n # Len(data) THEN Err("warning_partial_pty") ELSE UNCHANGED stderr
          /\ consecutive_errors' = 0
          /\ pc' = AfterUp
     \/ \* OSError, errno EBADF
        /\ Err("error_pty_fd")
        /\ pc' = "finally"
        /\ UNCHANGED <<ptyOut, consecutive_errors>>
     \/ \* any other OSError is raised again
        /\ Unexpected
        /\ UNCHANGED <<ptyOut, consecutive_errors>>
  /\ UNCHANGED <<args, lookup, call, exitCode, probeVars, findVars, ptyVars, handlers,
                 do_exit, upRead, downVars, calls, stdout>>

\* ready, _, _ = select.select([master_fd], [], [], 0.1)
Select ==
  /\ pc = "select"
  /\ \/ pc' = "pty_read" /\ UNCHANGED stderr
     \/ pc' = "loop" /\ UNCHANGED stderr
     \/ Err("error_select_fd") /\ pc' = "finally"
     \/ Unexpected
  /\ UNCHANGED <<args, lookup, call, exitCode, probeVars, findVars, ptyVars, handlers,
                 loopVars, dataVars, calls, stdout>>

\* mutant: EIO from os.read is reported and the loop goes on
PtyRead_IgnoresEio ==
  /\ pc = "pty_read"
  /\ \/ \E n \in 1..Min(Min(ReadSize, MaxChunkLen), MaxDownBytes - downRead) :
          /\ data' = Chunk(downRead, n)
          /\ downRead' = downRead + n
          /\ pc' = "rtt_write"
          /\ UNCHANGED stderr
     \/ /\ Err("pty_closed")
        /\ pc' = "loop"
        /\ UNCHANGED <<data, downRead>>
  /\ UNCHANGED <<args, lookup, call, exitCode, probeVars, findVars, ptyVars, handlers,
                 do_exit, consecutive_errors, upVars, rttHanded, rttOut, calls,
                 stdout>>

\* data = os.read(master_fd, 4096)
PtyRead ==
  /\ pc = "pty_read"
  /\ \/ \E n \in 1..Min(Min(ReadSize, MaxChunkLen), MaxDownBytes - downRead) :
          /\ data' = Chunk(downRead, n)
          /\ downRead' = downRead + n
          /\ pc' = "rtt_write"
          /\ UNCHANGED stderr
     \/ \* b''
        /\ pc' = "loop"
        /\ UNCHANGED <<data, downRead, stderr>>
     \/ \* OSError, errno EBADF or EIO
        /\ \E tag \in {"error_pty_fd", "pty_closed"} : Err(tag)
        /\ pc' = "finally"
        /\ UNCHANGED <<data, downRead>>
     \/ \* any other OSError is raised again
        /\ Unexpected
        /\ UNCHANGED <<data, downRead>>
  /\ UNCHANGED <<args, lookup, call, exitCode, probeVars, findVars, ptyVars, handlers,
                 do_exit, consecutive_errors, upVars, rttHanded, rttOut, calls,
                 stdout>>

\* mutant: the chunk is written to the buffer of index index_up
RttWrite_OnUpIndex ==
  /\ pc = "rtt_write"
  /\ rttHanded' = rttHanded \o [i \in 1..Len(data) |-> <<index_up, data[i]>>]
  /\ rttOut' = rttOut \o data
  /\ data' = <<>>
  /\ pc' = "loop"
  /\ UNCHANGED <<args, lookup, call, exitCode, probeVars, findVars, ptyVars, handlers,
                 do_exit, consecutive_errors, upVars, downRead, calls, stdout,
                 stderr>>

\* bytes_written = jlink.rtt_write(index_down, list(data))
RttWrite ==
  /\ pc = "rtt_write"
  /\ rttHanded' = rttHanded \o [i \in 1..Len(data) |-> <<index_down, data[i]>>]
  /\ data' = <<>>
  /\ \/ \E n \in 0..Len(data) :
          /\ rttOut' = rttOut \o SubSeq(data, 1, n)
          /\ IF n # Len(data) THEN Err("warning_partial_rtt") ELSE UNCHANGED stderr
          /\ pc' = "loop"
     \/ \* JLinkRTTException
        /\ Err("warning_rtt_write")
        /\ pc' = "loop"
        /\ UNCHANGED rttOut
     \/ \* a JLinkException of another class, or any other exception
        /\ Unexpected
        /\ UNCHANGED rttOut
  /\ UNCHANGED <<args, lookup, call, exitCode, probeVars, findVars, ptyVars, handlers,
                 do_exit, consecutive_errors, upVars, downRead, calls, stdout>>

\* `else: time.sleep(0.1)`
IdleSleep ==
  /\ pc = "idle"
  /\ pc' = "loop"
  /\ UNCHANGED <<args, lookup, call, exitCode, probeVars, findVars, ptyVars, handlers,
                 loopVars, dataVars, calls, stdout, stderr>>

\* ---------------------------------------------------------------- teardown
\* mutant: no try around jlink.rtt_stop(): what it raises leaves the finally
\* clause and reaches the outer `except Exception`, which returns 1
TdStopRtt_Escapes ==
  /\ pc = "finally"
  /\ \E raises \in BOOLEAN :
       /\ calls' = Append(calls, "rtt_stop")
       /\ rttStarted' = (rttStarted /\ raises)
       /\ stderr' = stderr \cup {"cleaning_up"}
                      \cup (IF raises THEN {"unexpected_error"} ELSE {})
       /\ IF raises THEN Return(ExitError)
          ELSE pc' = "td_master" /\ UNCHANGED exitCode
  /\ UNCHANGED <<args, lookup, call, jlink, sessionOpen, rtt_wait_elapsed, findVars,
                 ptyVars, handlers, loopVars, dataVars, stdout>>

\* finally: "Cleaning up...", then `if jlink: try: jlink.rtt_stop()`
TdStopRtt ==
  /\ pc = "finally"
  /\ IF jlink
       THEN \E raises \in BOOLEAN :
              /\ calls' = Append(calls, "rtt_stop")
              /\ rttStarted' = (rttStarted /\ raises)
              /\ stderr' = stderr \cup {"cleaning_up"}
                             \cup (IF raises THEN {"warning_rtt_stop"} ELSE {})
     ELSE Err("cleaning_up") /\ UNCHANGED <<calls, rttStarted>>
  /\ pc' = "td_master"
  /\ UNCHANGED <<args, lookup, call, exitCode, jlink, sessionOpen, rtt_wait_elapsed, findVars,
                 ptyVars, handlers, loopVars, dataVars, stdout>>

\* mutant: the first close is given slave_fd
TdCloseMaster_ClosesSlave ==
  /\ pc = "td_master"
  /\ IF slave_fd # None
       THEN /\ calls' = Append(calls, "close_slave")
            /\ openFds' = openFds \ {slave_fd}
     ELSE UNCHANGED <<calls, openFds>>
  /\ pc' = "td_slave"
  /\ UNCHANGED <<args, lookup, call, exitCode, probeVars, findVars, master_fd, slave_fd,
                 slaveNode, symlink_path, fsLink, handlers, loopVars, dataVars,
                 stdout, stderr>>

\* `if master_fd is not None: try: os.close(master_fd)`; an OSError is
\* passed over, and the descriptor is gone whether or not close reports one.
\* Closing the master removes the slave node where the OS allocates it on
\* demand (devpts) and leaves it where the nodes are static.
TdCloseMaster ==
  /\ pc = "td_master"
  /\ IF master_fd # None
       THEN \E fails \in BOOLEAN, node_stays \in BOOLEAN :
              /\ calls' = Append(calls, "close_master")
              /\ openFds' = openFds \ {master_fd}
              /\ slaveNode' = (slaveNode /\ node_stays)
     ELSE UNCHANGED <<calls, openFds, slaveNode>>
  /\ pc' = "td_slave"
  /\ UNCHANGED <<args, lookup, call, exitCode, probeVars, findVars, master_fd, slave_fd,
                 symlink_path, fsLink, handlers, loopVars, dataVars, stdout,
                 stderr>>

\* `if slave_fd is not None: try: os.close(slave_fd)`
TdCloseSlave ==
  /\ pc = "td_slave"
  /\ IF slave_fd # None
       THEN \E fails \in BOOLEAN :
              /\ calls' = Append(calls, "close_slave")
              /\ openFds' = openFds \ {slave_fd}
     ELSE UNCHANGED <<calls, openFds>>
  /\ pc' = "td_symlink"
  /\ UNCHANGED <<args, lookup, call, exitCode, probeVars, findVars, master_fd, slave_fd,
                 slaveNode, symlink_path, fsLink, handlers, loopVars, dataVars,
                 stdout, stderr>>

\* `if symlink_path and os.path.exists(symlink_path):` then
\* `if os.path.islink(symlink_path): os.remove(symlink_path)`
TdRemoveSymlink ==
  /\ pc = "td_symlink"
  /\ IF symlink_path /\ path_exists(fsLink, slaveNode) /\ path_islink(fsLink)
       THEN \E fails \in BOOLEAN :
              /\ calls' = Append(calls, "remove_symlink")
              /\ fsLink' = IF fails THEN fsLink ELSE "none"
              /\ IF fails THEN Err("warning_remove_symlink") ELSE UNCHANGED stderr
     ELSE UNCHANGED <<calls, fsLink, stderr>>
  /\ pc' = "td_jlink"
  /\ UNCHANGED <<args, lookup, call, exitCode, probeVars, findVars, master_fd, slave_fd,
                 openFds, slaveNode, symlink_path, handlers, loopVars, dataVars,
                 stdout>>

\* `if jlink: try: jlink.close()`, then `return 0`
TdCloseJLink ==
  /\ pc = "td_jlink"
  /\ IF jlink
       THEN \E raises \in BOOLEAN :
              /\ calls' = Append(calls, "jlink_close")
              /\ sessionOpen' = (sessionOpen /\ raises)
              /\ IF raises THEN Err("warning_close") ELSE UNCHANGED stderr
     ELSE UNCHANGED <<calls, sessionOpen, stderr>>
  /\ Return(ExitOk)
  /\ UNCHANGED <<args, lookup, call, jlink, rttStarted, rtt_wait_elapsed, findVars, ptyVars,
                 handlers, loopVars, dataVars, stdout>>

\* ------------------------------------------------------------ specification
\* the steps of main()
\* main() up to the relay loop, the relay loop, the finally clause
Startup ==
  \/ Validate \/ CreateJLink \/ Open \/ CheckOpened \/ Connect \/ Verify
  \/ RttStart \/ RttWait \/ PrintBufs \/ FindUp \/ FindDown
  \/ CreatePty \/ CreateSymlink \/ InstallSignals
Relay ==
  \/ LoopTest \/ ConnCheck \/ RttRead \/ Backoff \/ PtyWrite
  \/ Select \/ PtyRead \/ RttWrite \/ IdleSleep
Teardown ==
  \/ TdStopRtt \/ TdCloseMaster \/ TdCloseSlave \/ TdRemoveSymlink \/ TdCloseJLink

Main == Startup \/ Relay \/ Teardown

Next == Main \/ Signal \/ KeyboardInterrupt \/ ExternalUnlink

Spec == Init /\ [][Next]_vars

\* main() keeps running in the relay loop and in the finally clause: every
\* call it makes there returns
FairSpec == Spec /\ WF_vars(Relay \/ Teardown)

\* ------------------------------------------- find_buffer_by_name on its own
\* names a target gives its buffers: the requested one, the same padded with
\* NUL, the same in lower case
BufferNames == {<<"T">>, <<"T", "NUL">>, <<"t">>}
DescAnswers ==
  {DescNone, DescExc, DescOtherExc}
    \cup {Desc(n, sz) : n \in BufferNames, sz \in {0, 16}}
DescLists == UNION {[1..n -> DescAnswers] : n \in 1..MaxBuffers}

\* one attempt in which the descriptors ds are there to be scanned
AttScan(ds) == Attempt("yes", Len(ds), ds)
\* no rtt_is_active on the session and no up-buffer: taken as inactive
AttInactiveHeuristic ==
  [has_is_active |-> FALSE, is_active |-> "no", num_up |-> 0, num_down |-> 1,
   descs |-> <<Desc(<<"T">>, 16)>>]
\* buffers in one direction only
AttOnlyUp ==
  [has_is_active |-> TRUE, is_active |-> "yes", num_up |-> 1, num_down |-> 0,
   descs |-> <<Desc(<<"T">>, 16)>>]
AttOnlyDown ==
  [has_is_active |-> TRUE, is_active |-> "yes", num_up |-> 0, num_down |-> 1,
   descs |-> <<Desc(<<"T">>, 16)>>]
AttOtherExc == Attempt("yes", OtherExc, <<>>)

\* answers of the attempts before the one that settles the lookup, and of
\* that one
EarlyAttempts ==
  {AttInactive, AttInactiveHeuristic, AttNoBuffers, AttQueryFails, AttOnlyUp,
   AttOnlyDown}
LastAttempts == EarlyAttempts \cup {AttOtherExc} \cup {AttScan(ds) : ds \in DescLists}

\* sessions: up to DefaultMaxRetries - 1 early answers, then one answer kept
LookupSessions ==
  {[i \in 1..DefaultMaxRetries |-> IF i <= Len(early) THEN early[i] ELSE a] :
     early \in UNION {[1..k -> EarlyAttempts] : k \in 0..(DefaultMaxRetries - 1)},
     a \in LastAttempts}

LookupNames == {<<"T">>, <<" ", "T", " ">>, <<>>}

LookupInit ==
  /\ lookup \in [env : LookupSessions, name : LookupNames, up : BOOLEAN,
                 max_retries : 1..DefaultMaxRetries, result : {NotCalled}]
  /\ pc = "lookup"
  /\ args = BaseArgs
  /\ exitCode = Running
  /\ jlink = TRUE
  /\ sessionOpen = TRUE
  /\ rttStarted = TRUE
  /\ rtt_wait_elapsed = 0
  /\ index_up = -1
  /\ index_down = -1
  /\ master_fd = None
  /\ slave_fd = None
  /\ openFds = {}
  /\ slaveNode = FALSE
  /\ symlink_path = FALSE
  /\ fsLink = "none"
  /\ handlers = FALSE
  /\ do_exit = FALSE
  /\ consecutive_errors = 0
  /\ data = <<>>
  /\ upRead = 0
  /\ ptyHanded = <<>>
  /\ ptyOut = <<>>
  /\ downRead = 0
  /\ rttHanded = <<>>
  /\ rttOut = <<>>
  /\ calls = <<>>
  /\ stdout = {}
  /\ stderr = {}
  /\ call = NoCall

\* the call returns or raises
Lookup ==
  /\ pc = "lookup"
  /\ lookup' = [lookup EXCEPT !.result =
                  find_buffer_by_name(lookup.env, lookup.name, lookup.up,
                                      lookup.max_retries)]
  /\ pc' = "looked_up"
  /\ UNCHANGED <<args, call, exitCode, probeVars, findVars, ptyVars, handlers,
                 loopVars, dataVars, calls, stdout, stderr>>

LookupSpec == LookupInit /\ [][Lookup]_vars

\* ------------------------------------------------ other functions on their own
\* what a sub-token of an address string may read
NumberTexts ==
  {<<"0">>,
   <<"1">>,
   <<"-", "1">>,
   <<"1", "0">>,
   <<"0", "x", "1", "0">>,
   <<"0", "X", "1", "0">>,
   <<"0", "x", "F", "F", "F", "F", "F", "F", "F", "F">>,
   <<"0", "x", "1", "0", "0", "0", "0", "0", "0", "0", "0">>,
   <<"4", "2", "9", "4", "9", "6", "7", "2", "9", "5">>,
   <<"4", "2", "9", "4", "9", "6", "7", "2", "9", "6">>,
   <<"F", "F">>,
   <<"0", "x">>,
   <<>>,
   <<" ", "1", " ">>}
\* address strings: one sub-token, two with a comma between, and a few more
AddressStrings ==
  NumberTexts
    \cup {a \o <<",">> \o b : a, b \in NumberTexts}
    \cup {<<"0", "x", "F", "F", "F", "F", "F", "F", "F", "F", "F", "F", "F", "F", "F", "F", "F", "F">>,
          <<"0", "x", "1", "0", "0", "0", "0", "0", "0", "0", "0", "0", "0", "0", "0", "0", "0", "0", "0">>,
          <<" ">>,
          <<"1", ",", "2", ",", "3">>}

\* the calls looked at: parse_address(address_str); create_symlink on a path
\* in state fs, the PTY slave being there, the OS refusing or not; the two
\* connection checks on one set of session answers; the try around rtt_read
\* for an outcome of the read and a value of the counter
Calls ==
  {[fn |-> "parse_address", arg |-> a, done |-> FALSE, out |-> <<>>] :
     a \in AddressStrings}
  \cup {[fn |-> "create_symlink", arg |-> a, done |-> FALSE, out |-> <<>>] :
          a \in [fs : LinkStates \ {"pty_link"}, remove_fails : BOOLEAN,
                 symlink_fails : BOOLEAN]}
  \cup {[fn |-> "connection_check", arg |-> a, done |-> FALSE, out |-> <<>>] :
          a \in SessionAnswers}
  \cup {[fn |-> "rtt_read", arg |-> a, done |-> FALSE, out |-> <<>>] :
          a \in [outcome : ReadOutcomes,
                 consecutive_errors : 0..(max_consecutive_errors - 1)]}

CallInit ==
  /\ call \in Calls
  /\ pc = "call"
  /\ lookup = NoLookup
  /\ args = BaseArgs
  /\ exitCode = Running
  /\ jlink = TRUE
  /\ sessionOpen = TRUE
  /\ rttStarted = TRUE
  /\ rtt_wait_elapsed = 0
  /\ index_up = -1
  /\ index_down = -1
  /\ master_fd = None
  /\ slave_fd = None
  /\ openFds = {}
  /\ slaveNode = FALSE
  /\ symlink_path = FALSE
  /\ fsLink = "none"
  /\ handlers = FALSE
  /\ do_exit = FALSE
  /\ consecutive_errors = 0
  /\ data = <<>>
  /\ upRead = 0
  /\ ptyHanded = <<>>
  /\ ptyOut = <<>>
  /\ downRead = 0
  /\ rttHanded = <<>>
  /\ rttOut = <<>>
  /\ calls = <<>>
  /\ stdout = {}
  /\ stderr = {}

\* the call returns or raises
Returns(out) ==
  /\ pc = "call"
  /\ call' = [call EXCEPT !.done = TRUE, !.out = out]
  /\ pc' = "called"
  /\ UNCHANGED <<args, lookup, exitCode, probeVars, findVars, ptyVars, handlers,
                 loopVars, dataVars, calls, stdout, stderr>>

CallParseAddress ==
  /\ call.fn = "parse_address"
  /\ Returns(parse_address(call.arg))

CallCreateSymlink ==
  /\ call.fn = "create_symlink"
  /\ Returns(create_symlink(call.arg.fs, TRUE, call.arg.remove_fails,
                            call.arg.symlink_fails))

\* verify_jlink_connection and the relay loop's check on the same answers
CallConnectionChecks ==
  /\ call.fn = "connection_check"
  /\ Returns([verify |-> verify_jlink_connection(call.arg),
              loop |-> loop_connection_check(call.arg)])

\* one pass through the try around rtt_read
CallRttRead ==
  /\ call.fn = "rtt_read"
  /\ Returns(rtt_read_result(call.arg.outcome, call.arg.consecutive_errors))

CallSpec ==
  CallInit /\ [][\/ CallParseAddress \/ CallCreateSymlink \/ CallConnectionChecks
                 \/ CallRttRead]_vars

\* ================================================================== claims
Called(c) == \E i \in 1..Len(calls) : calls[i] = c
Count(c) == Cardinality({i \in 1..Len(calls) : calls[i] = c})
\* c is called, and before any call of d
Before(c, d) ==
  \A j \in 1..Len(calls) : calls[j] = d => \E i \in 1..(j - 1) : calls[i] = c

RttStartCalls == {"rtt_start_range", "rtt_start_address", "rtt_start_auto"}
SessionWasOpened == Called("open") /\ "error_open" \notin stderr
RttWasStarted == (\E c \in RttStartCalls : Called(c)) /\ "error_rtt_start" \notin stderr
\* the relay loop was entered (the handlers are installed right before it)
ReachedActive == handlers
LookupErrors ==
  {"error_up_lookup", "error_up_not_found", "error_down_lookup", "error_down_not_found"}

\* C1 (as claimed): whenever main() has returned after the probe session was
\* opened, RTT stop was called if RTT was started, both descriptors were
\* closed if a PTY was allocated, the removal of a published symlink was
\* attempted, and the probe session was closed.
C1_FullTeardownOnEveryExit ==
  (pc = "done" /\ SessionWasOpened) =>
     /\ RttWasStarted => Called("rtt_stop")
     /\ master_fd # None => Called("close_master") /\ Called("close_slave")
     /\ (symlink_path /\ fsLink = "pty_link") => Called("remove_symlink")
     /\ Called("jlink_close")

\* C2: in a teardown after the relay loop, RTT stop comes before either
\* descriptor is closed, the master is closed before the slave, and the
\* symlink removal comes before the probe session is closed.
C2_TeardownOrder ==
  ReachedActive =>
     /\ Before("rtt_stop", "close_master")
     /\ Before("rtt_stop", "close_slave")
     /\ Before("close_master", "close_slave")
     /\ \A i, j \in 1..Len(calls) :
          (calls[i] = "jlink_close" /\ calls[j] = "remove_symlink") => j < i
     /\ pc \in {"finally", "td_master", "td_slave", "td_symlink"} => ~Called("jlink_close")

C2_Witness ==
  /\ pc = "done"
  /\ ReachedActive
  /\ calls[Len(calls)] = "jlink_close"
  /\ calls[Len(calls) - 1] = "remove_symlink"

\* C3 (as claimed): after the teardown of a run that published the symlink,
\* and in which no removal was refused by the OS, no symlink to the PTY
\* remains at the published path.
C3_NoSymlinkAfterTeardown ==
  (pc = "done" /\ ReachedActive /\ symlink_path
     /\ "warning_remove_symlink" \notin stderr) => fsLink # "pty_link"

\* C4: whichever teardown steps fail, the later steps are still run, nothing
\* escapes the teardown, and main() returns 0 as it does when none fails.
C4_TeardownSurvivesFailures ==
  (pc = "done" /\ ReachedActive) =>
     /\ exitCode = ExitOk
     /\ Called("rtt_stop")
     /\ Called("close_master")
     /\ Called("close_slave")
     /\ Called("jlink_close")
     /\ openFds = {}
     /\ (symlink_path /\ fsLink = "pty_link" /\ slaveNode) => Called("remove_symlink")

C4_Witness ==
  /\ pc = "done"
  /\ ReachedActive
  /\ {"warning_rtt_stop", "warning_remove_symlink", "warning_close"} \subseteq stderr

\* C5: no teardown call is ever made twice, and a run that reached the relay
\* loop has made each of RTT stop, close master, close slave and probe close
\* exactly once when main() returns.
C5_TeardownExactlyOnce ==
  /\ \A c \in {"rtt_stop", "close_master", "close_slave", "remove_symlink", "jlink_close"} :
       Count(c) <= 1
  /\ (pc = "done" /\ ReachedActive) =>
       \A c \in {"rtt_stop", "close_master", "close_slave", "jlink_close"} : Count(c) = 1

C5_Witness ==
  /\ pc = "done"
  /\ ReachedActive
  /\ "error_too_many" \in stderr
  /\ Count("jlink_close") = 1

\* C6: a PTY descriptor, a published symlink or the Active state exist only
\* after RTT was seen active and the up-buffer (with --bidir also the
\* down-buffer) was resolved to an index >= 0; after a failed or not-found
\* lookup none of them exists and main() has returned.
C6_PtyOnlyAfterBuffersResolved ==
  /\ (master_fd # None \/ openFds # {} \/ symlink_path \/ fsLink = "pty_link"
        \/ handlers \/ pc \in ActivePcs) =>
       /\ Called("rtt_active")
       /\ index_up >= 0
       /\ args.bidir => index_down >= 0
  /\ stderr \cap LookupErrors # {} =>
       /\ pc = "done"
       /\ master_fd = None /\ slave_fd = None /\ openFds = {}
       /\ ~symlink_path /\ fsLink # "pty_link"
       /\ ~handlers

C6_Witness ==
  /\ pc = "done"
  /\ "error_down_not_found" \in stderr
  /\ index_up >= 0

\* C7 (as claimed): a step of the signal handler changes do_exit and nothing
\* else; in particular it writes nothing to standard error.
C7_SignalOnlySetsFlag ==
  [][Signal =>
       UNCHANGED <<args, lookup, call, pc, exitCode, probeVars, findVars, ptyVars, handlers,
                   consecutive_errors, data, dataVars, calls, stdout, stderr>>]_vars

\* C8: an iteration of the relay loop starts (with the connection check) only
\* from the loop test with the shutdown flag clear, the up-buffer read and
\* the readiness wait are issued only further on in that iteration, an
\* iteration ends at the loop test or in the teardown, and once the flag is
\* set it stays set and the loop test leads to the teardown.
IterationPcs == ActivePcs \ {"loop"}

C8_NoIterationAfterShutdown ==
  [][/\ (pc = "loop" /\ do_exit /\ pc' # pc) => pc' = "finally"
     /\ (pc' = "conn_check" /\ pc' # pc) => (pc = "loop" /\ ~do_exit)
     /\ (pc' = "rtt_read" /\ pc' # pc) => pc = "conn_check"
     /\ (pc' = "select" /\ pc' # pc) => pc \in {"rtt_read", "pty_write"}
     /\ (pc \in IterationPcs /\ pc' \notin IterationPcs) => pc' \in {"loop", "finally"}
     /\ (pc \in ActivePcs /\ do_exit) => do_exit']_vars

C8_Witness ==
  /\ pc = "finally"
  /\ do_exit
  /\ stderr = {"shutting_down"}
  /\ ptyOut # <<>>

\* C9: with main() kept running, once the shutdown flag is set in the Active
\* state main() eventually returns.
C9_ShutdownTerminates == (pc \in ActivePcs /\ do_exit) ~> (pc = "done")

C9_Witness ==
  /\ pc = "done"
  /\ do_exit
  /\ exitCode = ExitOk
  /\ upRead = MaxUpBytes

\* C10: a chunk in flight is handed to the write on the other side by the
\* next step of main(), also when the signal arrives in between: the signal
\* leaves the chunk and the position alone, and the chunk is given up only
\* by handing it on.
C10_ChunkInFlightIsHandedOn ==
  [][/\ (pc = "pty_write" /\ pc' # pc) => ptyHanded' = ptyHanded \o data
     /\ (pc = "rtt_write" /\ pc' # pc) =>
          rttHanded' = rttHanded \o [i \in 1..Len(data) |-> <<index_down, data[i]>>]
     /\ (pc \in {"pty_write", "rtt_write"} /\ pc' = pc) => data' = data
     /\ (pc' = "pty_write" /\ pc # pc') => (pc = "rtt_read" /\ data' # <<>>)
     /\ (pc' = "rtt_write" /\ pc # pc') => (pc = "pty_read" /\ data' # <<>>)]_vars

C10_Witness ==
  /\ pc \in {"pty_write", "rtt_write"}
  /\ do_exit
  /\ data # <<>>

\* what the relay loop prints when it ends on a fatal error
FatalLoopErrors ==
  {"error_connection", "error_pty_fd", "pty_closed", "error_select_fd",
   "error_too_many", "unexpected_error"}

\* C11 (as claimed): main() returns 0 after the relay loop only when the loop
\* ended on the shutdown flag; when it ended on a fatal error (lost
\* connection, fatal PTY descriptor error, too many consecutive errors, an
\* unexpected exception) main() returns a non-zero code.
C11_NonZeroAfterFatalLoopExit ==
  (pc = "done" /\ ReachedActive) =>
     /\ exitCode = ExitOk => (do_exit /\ stderr \cap FatalLoopErrors = {})
     /\ stderr \cap FatalLoopErrors # {} => exitCode \notin {ExitOk, Running}

\* the positions of the finally clause
TeardownPcs == {"finally", "td_master", "td_slave", "td_symlink", "td_jlink"}
StrictlyIncreasing(s) == \A i \in 1..(Len(s) - 1) : s[i] < s[i + 1]
OnIndex(index, bytes) == [i \in 1..Len(bytes) |-> <<index, bytes[i]>>]
\* t is s followed by bytes that do not occur in s
ExtendedByNew(s, t) ==
  /\ Len(t) >= Len(s)
  /\ SubSeq(t, 1, Len(s)) = s
  /\ \A i \in (Len(s) + 1)..Len(t) : \A j \in 1..Len(s) : t[i] # s[j]

\* C12: the bytes handed to os.write on the PTY master, followed by the chunk
\* in flight, are exactly the bytes read from the up-buffer, each once and in
\* read order; a chunk is non-empty and at most 4096 bytes; the PTY master
\* only ever receives bytes that were read, in increasing order; and when
\* every write was complete it has received exactly the bytes read.
C12_UpFidelity ==
  /\ ptyHanded \o (IF pc = "pty_write" THEN data ELSE <<>>) = Chunk(0, upRead)
  /\ pc = "pty_write" => (data # <<>> /\ Len(data) <= ReadSize)
  /\ StrictlyIncreasing(ptyOut)
  /\ \A i \in 1..Len(ptyOut) : ptyOut[i] \in 1..upRead
  /\ Len(ptyOut) = Len(ptyHanded) => ptyOut = Chunk(0, Len(ptyHanded))

C12_Witness ==
  /\ pc = "done"
  /\ upRead = MaxUpBytes
  /\ ptyOut = Chunk(0, MaxUpBytes)
  /\ "warning_partial_pty" \notin stderr

\* C13: the bytes handed to rtt_write, followed by the chunk in flight, are
\* exactly the bytes read from the PTY master, each once, in read order and
\* on the resolved index index_down; this happens only with --bidir and a
\* resolved down-buffer; a chunk is non-empty and at most 4096 bytes.
C13_DownFidelity ==
  /\ rttHanded \o (IF pc = "rtt_write" THEN OnIndex(index_down, data) ELSE <<>>)
       = OnIndex(index_down, Chunk(0, downRead))
  /\ pc = "rtt_write" => (data # <<>> /\ Len(data) <= ReadSize)
  /\ (downRead > 0 \/ pc \in {"select", "pty_read", "rtt_write"}) =>
       (args.bidir /\ index_down >= 0 /\ index_down # index_up)

C13_Witness ==
  /\ pc = "done"
  /\ Len(rttHanded) = MaxDownBytes
  /\ rttOut = Chunk(0, MaxDownBytes)
  /\ rttHanded[1][1] = MaxBuffers - 1

\* C14: a step in which the PTY master or the down-buffer accepts fewer bytes
\* than the chunk holds leaves the loop in the Active state with no chunk
\* kept; no byte is ever handed to a write a second time, and what a
\* destination receives in a step is a prefix of what was handed to it in
\* that step.
C14_PartialTransferNotRetried ==
  [][/\ (pc = "pty_write" /\ pc' # pc
           /\ Len(ptyOut') > Len(ptyOut) /\ Len(ptyOut') < Len(ptyOut) + Len(data)) =>
          (pc' \in ActivePcs /\ data' = <<>> /\ "warning_partial_pty" \in stderr')
     /\ (pc = "rtt_write" /\ pc' # pc /\ "warning_partial_rtt" \in stderr'
           /\ stderr' \ stderr \subseteq {"warning_partial_rtt"}) =>
          (pc' \in ActivePcs /\ data' = <<>>)
     /\ (pc = "pty_write" /\ pc' = pc) => UNCHANGED <<data, ptyHanded, ptyOut>>
     /\ ExtendedByNew(ptyHanded, ptyHanded')
     /\ ExtendedByNew(rttHanded, rttHanded')
     /\ \E n \in 0..(Len(ptyHanded') - Len(ptyHanded)) :
          ptyOut' = ptyOut \o SubSeq(ptyHanded', Len(ptyHanded) + 1, Len(ptyHanded) + n)
     /\ \E n \in 0..(Len(rttHanded') - Len(rttHanded)) :
          rttOut' = rttOut \o [i \in 1..n |-> rttHanded'[Len(rttHanded) + i][2]]]_vars

C14_Witness ==
  /\ pc \in ActivePcs
  /\ {"warning_partial_pty", "warning_partial_rtt"} \subseteq stderr
  /\ ptyOut = <<1, 3>>
  /\ rttOut = <<1>>
  /\ stderr \cap FatalLoopErrors = {}

\* C15: when a PTY operation of the loop (os.write, select, os.read) fails,
\* with EBADF, with EIO or with any other OS error, the next position is the
\* finally clause; from the finally clause on nothing is read or written on
\* either side, the finally clause is run to its end, and main() returns
\* with all four teardown calls made.
C15_PtyFailureLeavesActive ==
  [][/\ (pc \in {"pty_write", "select", "pty_read"}
           /\ (stderr' \ stderr) \cap
                {"error_pty_fd", "pty_closed", "error_select_fd", "unexpected_error"} # {}) =>
          (pc' = "finally" /\ UNCHANGED <<upRead, ptyOut, downRead, rttHanded, rttOut>>)
     /\ pc \in TeardownPcs =>
          (UNCHANGED <<dataVars, data>> /\ pc' \in TeardownPcs \cup {"done"})
     /\ (pc \in TeardownPcs /\ pc' = "done") =>
          \A c \in {"rtt_stop", "close_master", "close_slave", "jlink_close"} :
             \E i \in 1..Len(calls') : calls'[i] = c]_vars

C15_Witness ==
  /\ pc = "done"
  /\ "pty_closed" \in stderr
  /\ ptyOut # <<>>
  /\ Called("jlink_close")

\* ------------------------------------------ claims on find_buffer_by_name
\* the call looked at has returned or raised, and was given a usable name
LookedUp == pc = "looked_up" /\ ~IsBlank(lookup.name)
\* what the session answers during attempt k (1 .. max_retries)
ActiveAt(k) == is_rtt_active(lookup.env[k])
CountAt(k) == IF lookup.up THEN lookup.env[k].num_up ELSE lookup.env[k].num_down
DescsAt(k) == lookup.env[k].descs
\* attempt k is the first in which RTT is active and the count is non-zero,
\* the ones before it having asked for a retry
AsksRetry(k) == ~ActiveAt(k) \/ CountAt(k) = 0 \/ CountAt(k) = RttExc
Scans(k) ==
  /\ k \in 1..lookup.max_retries
  /\ ActiveAt(k)
  /\ CountAt(k) > 0
  /\ \A m \in 1..(k - 1) : AsksRetry(m)
\* descriptor d carries the requested name
Matches(d) == d.kind = "desc" /\ rstrip_nul(d.name) = strip(lookup.name)
\* descriptor d is passed over by a scan without ending it
PassedOver(d) == d.kind \in {"none", "rtt_exc"} \/ (d.kind = "desc" /\ ~Matches(d))

\* C16 (as claimed): with RTT active and a count of zero for the requested
\* direction on every attempt, the call raises after max_retries attempts an
\* error of the no-buffers kind of that direction, and not a not-found
\* result or an error of another kind.
C16_NoBuffersError ==
  (LookedUp /\ \A k \in 1..lookup.max_retries : ActiveAt(k) /\ CountAt(k) = 0) =>
     /\ lookup.result.kind = "error"
     /\ lookup.result.err = (IF lookup.up THEN "no_up_buffers" ELSE "no_down_buffers")
     /\ ~lookup.result.wrapped
     /\ lookup.result.checks = lookup.max_retries

\* C17 (as claimed): with RTT inactive on every attempt the call makes
\* max_retries activity checks and max_retries - 1 sleeps and raises an error
\* of the RTT-not-active kind; when RTT is first active on attempt k with
\* buffers to scan, the outcome is settled on attempt k; the call never makes
\* more than max_retries attempts.
C17_RetriesWhileInactive ==
  LookedUp =>
     /\ (\A k \in 1..lookup.max_retries : ~ActiveAt(k)) =>
          /\ lookup.result.kind = "error"
          /\ lookup.result.err = "rtt_not_active"
          /\ ~lookup.result.wrapped
          /\ lookup.result.checks = lookup.max_retries
          /\ lookup.result.sleeps = lookup.max_retries - 1
     /\ \A k \in 1..lookup.max_retries :
          (Scans(k) /\ \A m \in 1..(k - 1) : ~ActiveAt(m)) =>
             (lookup.result.checks = k /\ lookup.result.sleeps = k - 1)
     /\ lookup.result.checks \in 1..lookup.max_retries
     /\ lookup.result.sleeps = lookup.result.checks - 1

\* C18 (as claimed): when the scan reaches a descriptor with the requested
\* name and capacity 0, the call raises an error of the zero-size kind, and
\* neither returns the descriptor nor raises an error of another kind.
C18_ZeroSizeError ==
  LookedUp =>
     \A k \in 1..lookup.max_retries : \A j \in 1..Len(DescsAt(k)) :
        (/\ Scans(k)
         /\ j <= CountAt(k)
         /\ Matches(DescsAt(k)[j])
         /\ DescsAt(k)[j].size = 0
         /\ \A h \in 1..(j - 1) : PassedOver(DescsAt(k)[h])) =>
           /\ lookup.result.kind = "error"
           /\ lookup.result.err = "zero_size"
           /\ ~lookup.result.wrapped

\* C19: in the attempt that scans, when reading the descriptor at index i
\* raises JLinkRTTException and a later index j is the lowest with the
\* requested name, has a non-zero capacity, and every lower index is passed
\* over, the call returns (j, descriptor j).
C19_ScanSkipsFailedDescriptor ==
  LookedUp =>
     \A k \in 1..lookup.max_retries : \A i, j \in 1..Len(DescsAt(k)) :
        (/\ Scans(k)
         /\ i < j /\ j <= CountAt(k)
         /\ DescsAt(k)[i].kind = "rtt_exc"
         /\ Matches(DescsAt(k)[j])
         /\ DescsAt(k)[j].size > 0
         /\ \A h \in 1..(j - 1) : PassedOver(DescsAt(k)[h])) =>
           /\ lookup.result.kind = "found"
           /\ lookup.result.index = j - 1
           /\ lookup.result.desc = DescsAt(k)[j]
           /\ lookup.result.checks = k

C19_Witness ==
  /\ LookedUp
  /\ lookup.result.kind = "found"
  /\ lookup.result.index = 1
  /\ lookup.result.checks = DefaultMaxRetries
  /\ Scans(DefaultMaxRetries)
  /\ DescsAt(DefaultMaxRetries)[1].kind = "rtt_exc"
  /\ ~lookup.up

\* C20: an index is returned only for a descriptor of the scanned attempt
\* whose name without trailing NULs equals the stripped requested name, no
\* lower index having that name; and when the scan of an attempt passes over
\* every descriptor, the call returns not-found on that attempt.
C20_ExactMatchOrNotFound ==
  LookedUp =>
     /\ lookup.result.kind = "found" =>
          LET k == lookup.result.checks
              j == lookup.result.index + 1
          IN /\ Scans(k)
             /\ j \in 1..CountAt(k)
             /\ DescsAt(k)[j].kind = "desc"
             /\ rstrip_nul(DescsAt(k)[j].name) = strip(lookup.name)
             /\ lookup.result.desc = DescsAt(k)[j]
             /\ \A h \in 1..(j - 1) : ~Matches(DescsAt(k)[h])
     /\ \A k \in 1..lookup.max_retries :
          (Scans(k) /\ \A h \in 1..CountAt(k) : PassedOver(DescsAt(k)[h])) =>
             /\ lookup.result.kind = "not_found"
             /\ lookup.result.index = -1
             /\ lookup.result.checks = k
             /\ lookup.result.sleeps = k - 1

C20_Witness ==
  /\ LookedUp
  /\ lookup.result.kind = "not_found"
  /\ lookup.result.checks = 1
  /\ lookup.max_retries = DefaultMaxRetries
  /\ Len(DescsAt(1)) = MaxBuffers
  /\ \A h \in 1..MaxBuffers : DescsAt(1)[h] = Desc(<<"t">>, 16)
  /\ lookup.name = <<" ", "T", " ">>

C22_InvalidArgumentsTouchNothing ==
  (\/ ~validate_speed(args.speed)
   \/ (args.address # NoAddress /\ ~parse_address(args.address).ok)
   \/ IsBlank(args.buffer)) =>
     /\ pc \in {"start", "done"}
     /\ calls = <<>>
     /\ ~jlink /\ ~sessionOpen /\ ~rttStarted
     /\ pc = "done" => exitCode \notin {ExitOk, Running}

\* ---------------------------------------- claims on functions on their own
Returned(fn) == pc = "called" /\ call.fn = fn /\ call.done
\* the stripped sub-tokens of the address string of the call
AddressParts == split(strip(call.arg))
StartOfRange == to_int(strip(AddressParts[1]))
SizeOfRange == to_int(strip(AddressParts[2]))
Text_0x10_10 == <<"0", "x", "1", "0", ",", "1", "0">>
Text_10_0X10 == <<"1", "0", ",", "0", "X", "1", "0">>
Text_0_4294967295 == <<"0", ",", "4", "2", "9", "4", "9", "6", "7", "2", "9", "5">>
Text_1_0x100000000 == <<"1", ",", "0", "x", "1", "0", "0", "0", "0", "0", "0", "0", "0">>

\* C23: for an address string with one comma and two sub-tokens int()
\* accepts, parse_address returns (start, size), equal to the values of the
\* sub-tokens, exactly when start >= 0 and 1 <= size <= 0xFFFFFFFF, and
\* otherwise raises one of its three range errors; hexadecimal and decimal
\* are read per sub-token ("0x10,10" is (16, 10), "10,0X10" is (10, 16)).
C23_RangeBounds ==
  /\ (/\ Returned("parse_address")
      /\ Len(AddressParts) = 2
      /\ StartOfRange.num /\ SizeOfRange.num) =>
        /\ call.out.ok <=> (/\ ~Negative(StartOfRange.val)
                            /\ ~NotPositive(SizeOfRange.val)
                            /\ ~Greater(SizeOfRange.val, MaxRangeSize))
        /\ call.out.ok =>
             (call.out.first = StartOfRange.val /\ call.out.second = SizeOfRange.val)
        /\ ~call.out.ok =>
             /\ call.out.kind \in {"range_start", "range_size", "range_size_large"}
             /\ call.out.first = NoSize /\ call.out.second = NoSize
        /\ Negative(StartOfRange.val) => call.out.kind = "range_start"
  /\ (Returned("parse_address") /\ call.arg = Text_0x10_10) =>
        call.out = AddrOk(Small(16), Small(10))
  /\ (Returned("parse_address") /\ call.arg = Text_10_0X10) =>
        call.out = AddrOk(Small(10), Small(16))
  /\ (Returned("parse_address") /\ call.arg = Text_0_4294967295) =>
        call.out = AddrOk(Small(0), MaxRangeSize)
  /\ (Returned("parse_address") /\ call.arg = Text_1_0x100000000) =>
        call.out = AddrErr("range_size_large")

C23_Witness ==
  /\ Returned("parse_address")
  /\ call.arg = <<"0", "X", "1", "0", ",", "0", "x", "F", "F", "F", "F", "F", "F", "F", "F">>
  /\ call.out = AddrOk(Small(16), MaxRangeSize)

\* C24 (as claimed): create_symlink on a path that holds a symlink, live or
\* dangling, the OS refusing nothing, succeeds and leaves the symlink to the
\* PTY at the path.
C24_ReplacesExistingSymlink ==
  (/\ Returned("create_symlink")
   /\ path_islink(call.arg.fs)
   /\ ~call.arg.remove_fails /\ ~call.arg.symlink_fails) =>
     (call.out.ok /\ call.out.fs = "pty_link")

C26_FailedCreatePtyClosesDescriptors ==
  "error_pty" \in stderr => openFds = {}

\* ------------------------------------------------ claims on RTT activation
\* what main() prints once it is past the activation wait
PastActivation ==
  {"buffers", "using_up", "using_down", "pty_name", "created_symlink",
   "bridge_active"}

\* C27: while RTT is not active the polling loop sleeps RttPollSleep per
\* turn and is left by the first turn that finds more than max_rtt_wait
\* elapsed; that turn prints the timeout error, calls rtt_stop and
\* jlink.close as its last two calls and returns 1, and in such a run no
\* buffer is looked up and no PTY is allocated.
C27_ActivationTimeoutIsFatal ==
  [][/\ (pc = "rtt_wait" /\ rtt_wait_elapsed > max_rtt_wait) => pc' # "rtt_wait"
     /\ (pc = "rtt_wait" /\ pc' = "rtt_wait") =>
          /\ rtt_wait_elapsed <= max_rtt_wait
          /\ rtt_wait_elapsed' >= rtt_wait_elapsed + RttPollSleep
     /\ ("error_rtt_timeout" \in stderr' /\ "error_rtt_timeout" \notin stderr) =>
          /\ pc = "rtt_wait"
          /\ rtt_wait_elapsed > max_rtt_wait
          /\ calls' = calls \o <<"rtt_stop", "jlink_close">>
     /\ "error_rtt_timeout" \in stderr' =>
          /\ pc' = "done"
          /\ exitCode' = ExitError
          /\ stdout' \cap PastActivation = {}
          /\ index_up' < 0 /\ index_down' < 0
          /\ master_fd' = None /\ slave_fd' = None /\ openFds' = {}
          /\ stderr' \cap {"error_up_lookup", "error_up_not_found",
                           "error_down_lookup", "error_down_not_found",
                           "error_pty"} = {}]_vars

C27_Witness ==
  /\ "error_rtt_timeout" \in stderr
  /\ pc = "done"
  /\ exitCode = ExitError
  /\ ~rttStarted /\ ~sessionOpen

\* ---------------------------------------------------- claims on the relay loop
\* positions of an iteration at which bytes are read or written
IoPcs == {"rtt_read", "pty_write", "pty_read", "rtt_write"}
\* positions of an iteration after its connection check
PastCheck == IoPcs \cup {"backoff", "select", "idle"}

\* C28: an iteration of the relay loop starts with the connection check: the
\* first read of the iteration is reached only from a check that passed,
\* bytes are moved only at the read and write positions, and a check that
\* fails (not connected, target not connected, or a query raising) prints the
\* connection error and leaves the loop for the teardown with no byte read or
\* written, from where no read or write position is reached again.
C28_IterationStartsWithConnectionCheck ==
  [][/\ (pc = "loop" /\ pc' # pc) => pc' \in {"conn_check", "finally"}
     /\ (pc' = "rtt_read" /\ pc # pc') =>
          (pc = "conn_check" /\ stderr' = stderr)
     /\ (pc' \in PastCheck /\ pc \notin PastCheck) => pc = "conn_check"
     /\ dataVars' # dataVars => pc \in IoPcs
     /\ (pc = "conn_check" /\ pc' # pc /\ pc' # "rtt_read") =>
          /\ pc' = "finally"
          /\ "error_connection" \in stderr'
          /\ UNCHANGED <<dataVars, data, consecutive_errors, calls>>
     /\ (pc = "conn_check" /\ "error_connection" \in stderr') => pc' \notin PastCheck
     /\ pc \in TeardownPcs \cup {"done"} => pc' \notin ActivePcs]_vars

\* a check failed after bytes had been relayed in earlier iterations
C28_Witness ==
  /\ pc = "finally"
  /\ "error_connection" \in stderr
  /\ upRead > 0
  /\ ptyOut # <<>>

\* C29 (as claimed): every set of session answers that
\* verify_jlink_connection rejects also makes the relay loop's check fail.
C29_LoopCheckIsSessionGuard ==
  (Returned("connection_check") /\ ~call.out.verify) => ~call.out.loop

\* C30 (as claimed): past the up-direction step of an iteration, which is
\* reached only when rtt_read did not raise JLinkException, the
\* consecutive-error counter is 0.
C30_CounterZeroAfterGoodRead ==
  pc \in {"select", "pty_read", "rtt_write", "idle"} => consecutive_errors = 0

\* ------------------------------------------- claims on the error threshold
\* C31 (as claimed): a JLinkException from rtt_read adds one to the
\* consecutive-error counter; the loop is left on these grounds when, and
\* only when, the counter then exceeds max_consecutive_errors, and otherwise
\* the backoff follows; in the relay loop the counter is within
\* 0..max_consecutive_errors.
C31_ThresholdExceeded ==
  [][/\ (pc = "rtt_read" /\ consecutive_errors' > consecutive_errors) =>
          /\ consecutive_errors' = consecutive_errors + 1
          /\ IF consecutive_errors' > max_consecutive_errors
               THEN pc' = "finally" /\ "error_too_many" \in stderr'
             ELSE pc' = "backoff" /\ stderr' = stderr
     /\ ("error_too_many" \in stderr' /\ "error_too_many" \notin stderr) =>
          (pc = "rtt_read" /\ consecutive_errors' > max_consecutive_errors)
     /\ pc \in ActivePcs =>
          (consecutive_errors >= 0 /\ consecutive_errors <= max_consecutive_errors)]_vars

\* ------------------------------------------ claims on the down direction
\* C32 (as claimed): whatever way jlink.rtt_write fails, the step ends with
\* at most a warning: the loop is not left, the chunk is given up and is
\* never handed to a write again, and the next iteration starts at the loop
\* test.
C32_DownWriteFailureIsWarning ==
  [][/\ (pc = "rtt_write" /\ pc' # pc) =>
          /\ pc' = "loop"
          /\ data' = <<>>
          /\ stderr' \ stderr \subseteq {"warning_rtt_write", "warning_partial_rtt"}
          /\ consecutive_errors' = consecutive_errors
     /\ ExtendedByNew(rttHanded, rttHanded')]_vars
\* positions of the down direction
DownPcs == {"select", "pty_read", "rtt_write"}

\* C33: without -2 the down direction never runs: the loop is never at the
\* select, at the read of the PTY master or at rtt_write, nothing is read
\* from the PTY master and nothing is handed to rtt_write; an iteration
\* whose up-direction step ends without a JLinkException and without leaving
\* the loop goes to the idle sleep, and the idle sleep is followed by the
\* loop test.
C33_UnidirectionalNeverRunsDown ==
  [][~args.bidir =>
       /\ pc' \notin DownPcs
       /\ downRead' = 0 /\ rttHanded' = <<>> /\ rttOut' = <<>>
       /\ (pc = "rtt_read" /\ pc' # pc /\ pc' \in ActivePcs) =>
            pc' \in {"pty_write", "idle", "backoff"}
       /\ (pc = "rtt_read" /\ pc' = "backoff") =>
            consecutive_errors' = consecutive_errors + 1
       /\ (pc = "pty_write" /\ pc' # pc /\ pc' \in ActivePcs) => pc' = "idle"
       /\ (pc = "idle" /\ pc' # pc) => pc' = "loop"
       /\ (pc' = "loop" /\ pc \in ActivePcs /\ pc # pc') => pc \in {"idle", "backoff"}]_vars

\* a chunk was relayed and the iteration is at its idle sleep
C33_Witness ==
  /\ ~args.bidir
  /\ pc = "idle"
  /\ ptyOut # <<>>
  /\ upRead = MaxUpBytes

\* C34: with -2, a JLinkException from rtt_read below the threshold leads to
\* the backoff and from there straight to the loop test: the select is
\* entered only from an up-direction step that did not count an error, and
\* between the failed read and the next loop test nothing is read from the
\* PTY master and nothing is handed to rtt_write.
C34_FailedReadSkipsDownDirection ==
  [][(args.bidir /\ index_down >= 0) =>
       /\ (pc = "rtt_read" /\ consecutive_errors' > consecutive_errors
             /\ pc' \in ActivePcs) =>
            (pc' = "backoff" /\ UNCHANGED <<dataVars, data>>)
       /\ (pc = "backoff" /\ pc' # pc) =>
            (pc' = "loop" /\ UNCHANGED <<dataVars, data, consecutive_errors>>)
       /\ pc' = "backoff" => (pc \in {"rtt_read", "backoff"} /\ consecutive_errors' > 0)
       /\ (pc' = "select" /\ pc # pc') =>
            /\ pc \in {"rtt_read", "pty_write"}
            /\ consecutive_errors' <= consecutive_errors
       /\ (pc' \in {"pty_read", "rtt_write"} /\ pc # pc') => pc \in DownPcs]_vars

\* operator input was forwarded before, and two reads in a row have failed
C34_Witness ==
  /\ args.bidir /\ index_down >= 0
  /\ pc = "loop"
  /\ consecutive_errors = 2
  /\ downRead = 1
  /\ rttOut = <<1>>

\* C35: a JLinkRTTException from rtt_read sets consecutive_errors to 0
\* whatever it was, prints nothing and lets the iteration go on after the up
\* direction, so it never ends the loop; the counter grows only on a
\* JLinkException of another class, by one, and only that growth ends the
\* loop on threshold grounds.
C35_RttExceptionIsNoData ==
  Returned("rtt_read") =>
    /\ call.arg.outcome = "rtt_exception" =>
         call.out = [consecutive_errors |-> 0, next |-> "after_up", err |-> ""]
    /\ call.out.consecutive_errors > call.arg.consecutive_errors <=>
         call.arg.outcome = "jlink_exception"
    /\ call.arg.outcome = "jlink_exception" =>
         call.out.consecutive_errors = call.arg.consecutive_errors + 1
    /\ call.out.err = "error_too_many" => call.arg.outcome = "jlink_exception"
    /\ call.out.next \in {"backoff", "finally"} =>
         call.arg.outcome \in {"jlink_exception", "other_exception"}

\* the read raised JLinkRTTException after nine errors in a row
C35_Witness ==
  /\ Returned("rtt_read")
  /\ call.arg = [outcome |-> "rtt_exception",
                 consecutive_errors |-> max_consecutive_errors - 1]
  /\ call.out.consecutive_errors = 0
  /\ call.out.next = "after_up"

====
